---- MODULE Spec2Model ----
(***************************************************************************)
(* backupcopter: rotating incremental backups.  Model of the interval      *)
(* rotation (bcopter/shift.py), the device context stack                   *)
(* (bcopter/device_context.py) and the backup command (bcopter/backup.py). *)
(***************************************************************************)
EXTENDS Integers, Sequences, FiniteSets, TLC

(***************************************************************************)
(* Bounds of the model.                                                    *)
(***************************************************************************)
MaxIndex == 3
MaxPad == 1
MaxDepth == 3
MaxDirs == 3
MaxRunDepth == 2
MaxPath == 4
MaxDay == 8
MaxRuns == 2

VARIABLES
    conf,            \* resolved configuration and command line flags
    fs,              \* directories of the backup root: dirname -> content tag
    pc,              \* control location
    result,          \* outcome seen by the caller: "running", "ok", "3" or an exception type
    caller,          \* who called do_shift: "none", "backup" or "other"
    shift_iv,        \* do_shift: the interval argument
    indicies,        \* do_shift: the sorted list still to be processed
    fs0,             \* history: fs when do_shift was entered
    ops,             \* history: filesystem mutations performed, in order
    args,            \* parsed command line: intervals, umount, force_umount
    dev,             \* destination device: node present, mapping open, mounted, cwd
    parts,           \* contexts create_target_device_context has still to yield
    stack,           \* ExitStack: the contexts entered and not yet exited
    exc,             \* the exception in flight ("None" when there is none)
    body_exc,        \* history: the exception the with body raised
    entered,         \* history: the contexts entered, in order
    released,        \* history: the contexts whose __exit__ was called, in order
    cmds,            \* history: the external commands issued, in order
    backup_interval, \* CmdBackup.run: the interval the backup is made in
    oi,              \* CmdBackup.run: position of the loop over the other intervals
    linkdest_dir,    \* do_backup: the generation to link against (<<>> for None)
    subvolumes,      \* do_backup: the snapshotted roots recorded, in order
    snaps,           \* the snapshots that exist in the snapshot directory
    sv_todo,         \* initialize_btrfs / finalize_btrfs: the roots still to handle
    tq,              \* do_backup: the targets still to back up
    txn,             \* do_backup: the BackupTransaction of the current target
    processes,       \* clone_intervals: the (process, dirname) list
    procs_todo,      \* clone_intervals: the intervals whose clone is not started yet
    hist,            \* history: what the run did, in order
    dests,           \* do_backup: target -> content of <interval>.0/<target.dest>
    clock,           \* weeklymonthly: the UTC time of the system
    state_file,      \* weeklymonthly: the state file (exists, content)
    last_run,        \* weeklymonthly: the time read from the state file (NoRun for None)
    this_run,        \* weeklymonthly: the time of this run
    commandline      \* weeklymonthly: args.commandline

shiftvars == <<caller, shift_iv, indicies, fs0, ops>>
devvars == <<args, dev, parts, stack, exc, body_exc, entered, released, cmds>>
wmvars == <<clock, state_file, last_run, this_run, commandline>>
runvars == <<backup_interval, oi, linkdest_dir, subvolumes, snaps, sv_todo, tq, txn,
             processes, procs_todo, hist, dests>>
vars == <<conf, fs, pc, result, caller, shift_iv, indicies, fs0, ops,
          args, dev, parts, stack, exc, body_exc, entered, released, cmds,
          backup_interval, oi, linkdest_dir, subvolumes, snaps, sv_todo, tq, txn,
          processes, procs_todo, hist, dests,
         clock, state_file, last_run, this_run, commandline>>

(***************************************************************************)
(* Strings are sequences of one-character strings.  A directory entry      *)
(* "<prefix>.<suffix>" is the pair <<prefix, suffix>>.                     *)
(***************************************************************************)
DigitChars == <<"0", "1", "2", "3", "4", "5", "6", "7", "8", "9">>

\* code point order of the characters the model uses
CharOrder == <<"+", "-", "0", "1", "2", "3", "4", "5", "6", "7", "8", "9", "x">>

CharOrd(c) == CHOOSE i \in 1..Len(CharOrder) : CharOrder[i] = c

IsDigit(c) == \E i \in 1..Len(DigitChars) : DigitChars[i] = c

DigitVal(c) == (CHOOSE i \in 1..Len(DigitChars) : DigitChars[i] = c) - 1

AllDigits(s) == Len(s) >= 1 /\ \A i \in 1..Len(s) : IsDigit(s[i])

RECURSIVE DigitsVal(_)
DigitsVal(s) ==
    IF s = <<>> THEN 0
    ELSE DigitsVal(SubSeq(s, 1, Len(s) - 1)) * 10 + DigitVal(s[Len(s)])

\* int(s) raises ValueError exactly when IntOk(s) is false
IntOk(s) ==
    \/ AllDigits(s)
    \/ Len(s) >= 2 /\ s[1] \in {"+", "-"} /\ AllDigits(Tail(s))

int(s) ==
    IF s[1] = "-" THEN 0 - DigitsVal(Tail(s))
    ELSE IF s[1] = "+" THEN DigitsVal(Tail(s))
    ELSE DigitsVal(s)

RECURSIVE str(_)
str(n) ==
    IF n < 0 THEN <<"-">> \o str(0 - n)
    ELSE IF n < 10 THEN <<DigitChars[n + 1]>>
    ELSE str(n \div 10) \o <<DigitChars[(n % 10) + 1]>>

\* a < b for strings, compared character by character
RECURSIVE StrLess(_, _)
StrLess(a, b) ==
    IF b = <<>> THEN FALSE
    ELSE IF a = <<>> THEN TRUE
    ELSE IF a[1] # b[1] THEN CharOrd(a[1]) < CharOrd(b[1])
    ELSE StrLess(Tail(a), Tail(b))

(***************************************************************************)
(* shift.py                                                                *)
(***************************************************************************)
interval_dirname(interval, index) == <<interval, str(index)>>

\* the (index, dirname) pairs of the entries "<interval>.<int>" of the directory
interval_indicies(dir, interval) ==
    { <<int(d[2]), d>> : d \in { e \in DOMAIN dir : e[1] = interval /\ IntOk(e[2]) } }

\* tuple order of (index, dirname)
PairLess(p, q) == p[1] < q[1] \/ (p[1] = q[1] /\ StrLess(p[2][2], q[2][2]))

\* list.sort(reverse=True)
RECURSIVE SortReverse(_)
SortReverse(S) ==
    IF S = {} THEN <<>>
    ELSE LET m == CHOOSE p \in S : \A q \in S \ {p} : PairLess(q, p)
         IN  <<m>> \o SortReverse(S \ {m})

IsSurplus_Mut(my_depth, index) == my_depth > 0 /\ index >= my_depth

\* the test of do_shift that decides between deleting and renaming
IsSurplus(my_depth, index) == my_depth > 0 /\ index >= my_depth - 1

Remove(dir, d) == [e \in DOMAIN dir \ {d} |-> dir[e]]

Move(dir, old, new) ==
    [e \in (DOMAIN dir \ {old}) \cup {new} |-> IF e = new THEN dir[old] ELSE dir[e]]

\* the exception a failing Context.deltree raises
DeltreeError == IF conf.rm_cmd THEN "CalledProcessError:rm" ELSE "OSError:rmtree"

\* where control goes when do_shift returns
ShiftReturnTo ==
    IF caller = "none" THEN "done"
    ELSE IF caller = "backup" THEN "decide" ELSE "others"

\* do_shift raises e: to its caller when it is run alone, otherwise out of the
\* with body of CmdBackup.run, into ExitStack.__exit__
ShiftRaise(e) ==
    IF caller = "none"
    THEN pc' = "done" /\ result' = e /\ UNCHANGED <<exc, body_exc>>
    ELSE pc' = "exit" /\ exc' = e /\ body_exc' = e /\ UNCHANGED result

NoExc == "None"

\* do_shift that returns at once when generation 0 is free
do_shift_begin_Mut ==
    /\ pc = "shift"
    /\ indicies' = IF 0 \in {p[1] : p \in interval_indicies(fs, shift_iv)}
                   THEN SortReverse(interval_indicies(fs, shift_iv))
                   ELSE <<>>
    /\ fs0' = fs
    /\ pc' = "shift_loop"
    /\ UNCHANGED <<wmvars, conf, fs, result, caller, shift_iv, ops, devvars, runvars>>

do_shift_begin ==
    /\ pc = "shift"
    /\ indicies' = SortReverse(interval_indicies(fs, shift_iv))
    /\ fs0' = fs
    /\ pc' = "shift_loop"
    /\ UNCHANGED <<wmvars, conf, fs, result, caller, shift_iv, ops, devvars, runvars>>

\* one iteration of the loop of do_shift: Context.deltree
do_shift_deltree ==
    /\ pc = "shift_loop"
    /\ indicies # <<>>
    /\ LET index == Head(indicies)[1]
           dirname == Head(indicies)[2]
       IN  /\ IsSurplus(conf.intervals_shiftdepth[shift_iv], index)
           /\ \/ /\ conf.dryrun
                 /\ indicies' = Tail(indicies)
                 /\ UNCHANGED <<fs, ops, pc, result, exc, body_exc>>
              \/ /\ ~conf.dryrun
                 /\ fs' = Remove(fs, dirname)
                 /\ ops' = Append(ops, [op |-> "deltree", src |-> dirname,
                                        dst |-> dirname, clash |-> FALSE])
                 /\ indicies' = Tail(indicies)
                 /\ UNCHANGED <<pc, result, exc, body_exc>>
              \/ /\ ~conf.dryrun
                 /\ ShiftRaise(DeltreeError)
                 /\ UNCHANGED <<fs, ops, indicies>>
    /\ UNCHANGED <<wmvars, conf, caller, shift_iv, fs0, args, dev, parts, stack,
                   entered, released, cmds, runvars>>

\* one iteration of the loop of do_shift: Context.rename
do_shift_rename ==
    /\ pc = "shift_loop"
    /\ indicies # <<>>
    /\ LET index == Head(indicies)[1]
           dirname == Head(indicies)[2]
           newname == interval_dirname(shift_iv, index + 1)
       IN  /\ ~IsSurplus(conf.intervals_shiftdepth[shift_iv], index)
           /\ IF conf.dryrun
              THEN /\ indicies' = Tail(indicies)
                   /\ UNCHANGED <<fs, ops, pc, result, exc, body_exc>>
              ELSE IF newname \in DOMAIN fs /\ fs[newname] # "empty"
              THEN \* os.rename onto a non-empty directory: OSError
                   /\ ShiftRaise("OSError:rename")
                   /\ ops' = Append(ops, [op |-> "rename_failed", src |-> dirname,
                                          dst |-> newname, clash |-> TRUE])
                   /\ UNCHANGED <<fs, indicies>>
              ELSE /\ fs' = Move(fs, dirname, newname)
                   /\ ops' = Append(ops, [op |-> "rename", src |-> dirname,
                                          dst |-> newname,
                                          clash |-> newname \in DOMAIN fs])
                   /\ indicies' = Tail(indicies)
                   /\ UNCHANGED <<pc, result, exc, body_exc>>
    /\ UNCHANGED <<wmvars, conf, caller, shift_iv, fs0, args, dev, parts, stack,
                   entered, released, cmds, runvars>>

do_shift_return ==
    /\ pc = "shift_loop"
    /\ indicies = <<>>
    /\ pc' = ShiftReturnTo
    /\ result' = IF caller = "none" THEN "ok" ELSE result
    /\ UNCHANGED <<wmvars, conf, fs, caller, shift_iv, indicies, fs0, ops, devvars, runvars>>


(***************************************************************************)
(* device_context.py                                                       *)
(***************************************************************************)
STEP_COUNT == 5

\* WaitContext: the default of timeout, in seconds
WAIT_TIMEOUT == 30

\* Context.check_call: the entry it leaves in the command history
Call(cmd, ok) == [cmd |-> cmd, real |-> ~conf.dryrun, ok |-> ok]

\* the exit codes Context.check_call can see: always 0 in dry-run
Outcomes == IF conf.dryrun THEN {TRUE} ELSE BOOLEAN

\* a generator that yields the MountContext before the CryptoContext
create_target_device_context_Mut(base, umount_if_mounted, force_umount) ==
    (IF base.dest_mount
     THEN <<"wait">>
          \o (IF base.dest_device_suspend /\ umount_if_mounted
              THEN <<"suspend">> ELSE <<>>)
          \o <<"mount">>
          \o (IF base.dest_cryptsetup THEN <<"crypto">> ELSE <<>>)
     ELSE <<>>)
    \o <<"chdir">>

\* the contexts create_target_device_context yields, in order
create_target_device_context(base, umount_if_mounted, force_umount) ==
    (IF base.dest_mount
     THEN <<"wait">>
          \o (IF base.dest_device_suspend /\ umount_if_mounted
              THEN <<"suspend">> ELSE <<>>)
          \o (IF base.dest_cryptsetup THEN <<"crypto">> ELSE <<>>)
          \o <<"mount">>
     ELSE <<>>)
    \o <<"chdir">>

\* MountlikeContext.__init__ (and the contexts without state)
Context(kind, mounted) ==
    [kind |-> kind, _mounted |-> mounted,
     umount_if_mounted |-> args.umount, force_umount |-> args.force_umount]

\* ExitStack.enter_context after a successful __enter__
Entered(ctx) ==
    /\ stack' = Append(stack, ctx)
    /\ entered' = Append(entered, ctx.kind)
    /\ parts' = Tail(parts)
    /\ pc' = IF Tail(parts) = <<>> THEN "body" ELSE "enter"
    /\ UNCHANGED <<result, exc>>

\* __enter__ raised: the exception leaves DeviceContext.__enter__, and the with
\* statement of CmdBackup.run never calls __exit__
EnterRaised(e) ==
    /\ pc' = "done"
    /\ result' = e
    /\ exc' = e
    /\ UNCHANGED <<stack, entered, parts>>

\* DeviceContext.__enter__: ExitStack.__enter__ and the call of the generator
DeviceContext_enter ==
    /\ pc = "with"
    /\ parts' = create_target_device_context(conf, args.umount, args.force_umount)
    /\ pc' = "enter"
    /\ UNCHANGED <<wmvars, runvars, conf, fs, result, shiftvars, args, dev, stack, exc, body_exc,
                   entered, released, cmds>>

\* WaitContext._waiting(since): the call of the waiting callback, made after
\* elapsed seconds of waiting
Waiting(since, elapsed) ==
    [ev |-> "waiting",
     what |-> [since |-> since, remaining |-> WAIT_TIMEOUT - since, elapsed |-> elapsed]]

\* the calls of the waiting callback in the loop of WaitContext.__enter__ when
\* the device node is there after the sleep of iteration appears
\* (STEP_COUNT + 1: it never shows up)
WaitingCalls(appears) ==
    LET step == WAIT_TIMEOUT \div STEP_COUNT
    IN  [i \in 1..(appears - 1) |-> Waiting((i + 1) * step, i * step)]

WaitContext_enter ==
    /\ pc = "enter" /\ parts # <<>> /\ Head(parts) = "wait"
    /\ IF dev.present
       THEN Entered(Context("wait", FALSE)) /\ UNCHANGED <<dev, cmds, hist>>
       ELSE \* _waiting(0) is Context.device_missing, which calls warn_user
            \E notified \in Outcomes :
               IF ~notified
               THEN /\ EnterRaised("CalledProcessError:notify")
                    /\ cmds' = Append(cmds, Call("notify", FALSE))
                    /\ hist' = Append(hist, Waiting(0, 0))
                    /\ UNCHANGED dev
               ELSE \E appears \in 1..(STEP_COUNT + 1) :
                       /\ cmds' = Append(cmds, Call("notify", TRUE))
                       /\ hist' = Append(hist, Waiting(0, 0)) \o WaitingCalls(appears)
                       /\ IF appears <= STEP_COUNT
                          THEN /\ dev' = [dev EXCEPT !.present = TRUE]
                               /\ Entered(Context("wait", FALSE))
                          ELSE /\ EnterRaised("FileNotFoundError:device")
                               /\ UNCHANGED dev
    /\ UNCHANGED <<wmvars, conf, fs, shiftvars, args, body_exc, released, backup_interval, oi,
                   linkdest_dir, subvolumes, snaps, sv_todo, tq, txn, processes,
                   procs_todo, dests>>

SuspendContext_enter ==
    /\ pc = "enter" /\ parts # <<>> /\ Head(parts) = "suspend"
    /\ Entered(Context("suspend", FALSE))
    /\ UNCHANGED <<wmvars, runvars, conf, fs, shiftvars, args, dev, body_exc, released, cmds>>

CryptoContext_enter ==
    /\ pc = "enter" /\ parts # <<>> /\ Head(parts) = "crypto"
    /\ IF dev.mapped
       THEN Entered(Context("crypto", FALSE)) /\ UNCHANGED <<dev, cmds>>
       ELSE \E ok \in Outcomes :
               /\ cmds' = Append(cmds, Call("luksOpen", ok))
               /\ IF ok
                  THEN /\ dev' = [dev EXCEPT !.mapped = @ \/ ~conf.dryrun]
                       /\ Entered(Context("crypto", TRUE))
                  ELSE /\ EnterRaised("CalledProcessError:luksOpen")
                       /\ UNCHANGED dev
    /\ UNCHANGED <<wmvars, runvars, conf, fs, shiftvars, args, body_exc, released>>

MountContext_enter ==
    /\ pc = "enter" /\ parts # <<>> /\ Head(parts) = "mount"
    /\ IF dev.mounted
       THEN Entered(Context("mount", FALSE)) /\ UNCHANGED <<dev, cmds>>
       ELSE \E ok \in Outcomes :
               /\ cmds' = Append(cmds, Call("mount", ok))
               /\ IF ok
                  THEN /\ dev' = [dev EXCEPT !.mounted = @ \/ ~conf.dryrun]
                       /\ Entered(Context("mount", TRUE))
                  ELSE /\ EnterRaised("CalledProcessError:mount")
                       /\ UNCHANGED dev
    /\ UNCHANGED <<wmvars, runvars, conf, fs, shiftvars, args, body_exc, released>>

\* os.chdir is not intercepted in dry-run; it fails when dest_root is missing
DirectoryContext_enter ==
    /\ pc = "enter" /\ parts # <<>> /\ Head(parts) = "chdir"
    /\ \E ok \in BOOLEAN :
          IF ok
          THEN /\ dev' = [dev EXCEPT !.cwd = "dest_root"]
               /\ cmds' = Append(cmds, [cmd |-> "chdir", real |-> TRUE, ok |-> TRUE])
               /\ Entered(Context("chdir", FALSE))
          ELSE /\ EnterRaised("OSError:chdir")
               /\ cmds' = Append(cmds, [cmd |-> "chdir", real |-> TRUE, ok |-> FALSE])
               /\ UNCHANGED dev
    /\ UNCHANGED <<wmvars, runvars, conf, fs, shiftvars, args, body_exc, released>>

\* an unwinding that stops at the first __exit__ that raises
Exited_MutAbort(kind, raised) ==
    /\ stack' = IF raised = NoExc THEN SubSeq(stack, 1, Len(stack) - 1) ELSE <<>>
    /\ released' = Append(released, kind)
    /\ exc' = IF raised = NoExc THEN exc ELSE raised
    /\ UNCHANGED <<pc, result, parts, entered, body_exc>>

\* an unwinding that swallows what __exit__ raises
Exited_MutSwallow(kind, raised) ==
    /\ stack' = SubSeq(stack, 1, Len(stack) - 1)
    /\ released' = Append(released, kind)
    /\ exc' = exc
    /\ UNCHANGED <<pc, result, parts, entered, body_exc>>

\* ExitStack.__exit__ pops the last context entered and calls its __exit__ with
\* the exception in flight; an exception raised by __exit__ becomes the one in flight
Exited(kind, raised) ==
    /\ stack' = SubSeq(stack, 1, Len(stack) - 1)
    /\ released' = Append(released, kind)
    /\ exc' = IF raised = NoExc THEN exc ELSE raised
    /\ UNCHANGED <<pc, result, parts, entered, body_exc>>

Top == stack[Len(stack)]

DirectoryContext_exit ==
    /\ pc = "exit" /\ stack # <<>> /\ Top.kind = "chdir"
    /\ dev' = [dev EXCEPT !.cwd = "start"]
    /\ cmds' = Append(cmds, [cmd |-> "chdir_back", real |-> TRUE, ok |-> TRUE])
    /\ Exited("chdir", NoExc)
    /\ UNCHANGED <<wmvars, runvars, conf, fs, shiftvars, args>>

NeedsUmount_Mut(ctx) == ctx._mounted \/ ctx.force_umount

\* the test of MountlikeContext.__exit__
NeedsUmount(ctx) == (ctx._mounted /\ ctx.umount_if_mounted) \/ ctx.force_umount

\* MountlikeContext.__exit__ of a MountContext
MountContext_exit ==
    /\ pc = "exit" /\ stack # <<>> /\ Top.kind = "mount"
    /\ IF NeedsUmount(Top)
       THEN \E ok \in Outcomes :
               /\ cmds' = Append(cmds, Call("umount", ok))
               /\ dev' = [dev EXCEPT !.mounted = @ /\ ~(ok /\ ~conf.dryrun)]
               /\ Exited("mount", IF ok THEN NoExc ELSE "CalledProcessError:umount")
       ELSE Exited("mount", NoExc) /\ UNCHANGED <<dev, cmds>>
    /\ UNCHANGED <<wmvars, runvars, conf, fs, shiftvars, args>>

\* MountlikeContext.__exit__ of a CryptoContext
CryptoContext_exit ==
    /\ pc = "exit" /\ stack # <<>> /\ Top.kind = "crypto"
    /\ IF NeedsUmount(Top)
       THEN \E ok \in Outcomes :
               /\ cmds' = Append(cmds, Call("luksClose", ok))
               /\ dev' = [dev EXCEPT !.mapped = @ /\ ~(ok /\ ~conf.dryrun)]
               /\ Exited("crypto", IF ok THEN NoExc ELSE "CalledProcessError:luksClose")
       ELSE Exited("crypto", NoExc) /\ UNCHANGED <<dev, cmds>>
    /\ UNCHANGED <<wmvars, runvars, conf, fs, shiftvars, args>>

SuspendAllowed_Mut(exc_type) == TRUE

\* the test of SuspendContext.__exit__
SuspendAllowed(exc_type) == exc_type = NoExc

SuspendContext_exit ==
    /\ pc = "exit" /\ stack # <<>> /\ Top.kind = "suspend"
    /\ IF SuspendAllowed(exc)
       THEN \E ok \in Outcomes :
               /\ cmds' = Append(cmds, Call("hdparm", ok))
               /\ Exited("suspend", IF ok THEN NoExc ELSE "CalledProcessError:hdparm")
       ELSE Exited("suspend", NoExc) /\ UNCHANGED cmds
    /\ UNCHANGED <<wmvars, runvars, conf, fs, shiftvars, args, dev>>

WaitContext_exit ==
    /\ pc = "exit" /\ stack # <<>> /\ Top.kind = "wait"
    /\ Exited("wait", NoExc)
    /\ UNCHANGED <<wmvars, runvars, conf, fs, shiftvars, args, dev, cmds>>

\* ExitStack.__exit__ with every callback called: the exception in flight, if
\* any, leaves the with statement and CmdBackup.run
ExitStack_exit_end ==
    /\ pc = "exit" /\ stack = <<>>
    /\ pc' = "done"
    /\ result' = IF exc = NoExc THEN "ok" ELSE exc
    /\ UNCHANGED <<wmvars, runvars, conf, fs, shiftvars, args, dev, parts, stack, exc, body_exc,
                   entered, released, cmds>>

\* the body of the with statement as the ExitStack sees it: it returns or raises
with_body ==
    /\ pc = "body"
    /\ \E e \in {NoExc, "OSError:body", "CalledProcessError:body"} :
          /\ exc' = e
          /\ body_exc' = e
    /\ pc' = "exit"
    /\ UNCHANGED <<wmvars, runvars, conf, fs, result, shiftvars, args, dev, parts, stack,
                   entered, released, cmds>>

(***************************************************************************)
(* backup.py: CmdBackup.run, do_backup, snapshots, BackupTransaction; and  *)
(* shift.clone_intervals.                                                  *)
(***************************************************************************)
Range(q) == {q[i] : i \in 1..Len(q)}

\* list.index (0-based); raises ValueError when x is not in the list
index(q, x) == (CHOOSE i \in 1..Len(q) : q[i] = x /\ \A j \in 1..(i - 1) : q[j] # x) - 1

\* a run that leaves the requested intervals in command line order
SortByIndexReverse_Mut(q, order) == q

\* list.sort(key=conf.base.intervals.index, reverse=True): stable, descending
RECURSIVE SortByIndexReverse(_, _)
SortByIndexReverse(q, order) ==
    IF q = <<>> THEN <<>>
    ELSE LET rest == SortByIndexReverse(SubSeq(q, 1, Len(q) - 1), order)
             x == q[Len(q)]
             before == {i \in 1..Len(rest) : index(order, rest[i]) >= index(order, x)}
             n == Cardinality(before)
         IN  SubSeq(rest, 1, n) \o <<x>> \o SubSeq(rest, n + 1, Len(rest))

IndexSet(dir, interval) == {p[1] : p \in interval_indicies(dir, interval)}

Min(S) == CHOOSE x \in S : \A y \in S : x <= y
Max(S) == CHOOSE x \in S : \A y \in S : y <= x

Event(ev, what) == [ev |-> ev, what |-> what]

\* the with body raises e: ExitStack.__exit__ runs with it
BodyRaise(e) == pc' = "exit" /\ exc' = e /\ body_exc' = e

\* a run that ends like a success when an interval is not configured
run_sort_Mut ==
    /\ pc = "start"
    /\ IF \E i \in 1..Len(args.intervals) : args.intervals[i] \notin Range(conf.intervals)
       THEN pc' = "done" /\ result' = "ok" /\ UNCHANGED args
       ELSE /\ args' = [args EXCEPT !.intervals = SortByIndexReverse(@, conf.intervals)]
            /\ pc' = "with"
            /\ UNCHANGED result
    /\ UNCHANGED <<wmvars, conf, fs, shiftvars, dev, parts, stack, exc, body_exc, entered,
                   released, cmds, runvars>>

\* CmdBackup.run: sorting of the requested intervals
run_sort ==
    /\ pc = "start"
    /\ IF \E i \in 1..Len(args.intervals) : args.intervals[i] \notin Range(conf.intervals)
       THEN pc' = "done" /\ result' = "3" /\ UNCHANGED args
       ELSE /\ args' = [args EXCEPT !.intervals = SortByIndexReverse(@, conf.intervals)]
            /\ pc' = "with"
            /\ UNCHANGED result
    /\ UNCHANGED <<wmvars, conf, fs, shiftvars, dev, parts, stack, exc, body_exc, entered,
                   released, cmds, runvars>>

\* CmdBackup.run: args.intervals.pop() and the shift of the backup interval
run_body_begin ==
    /\ pc = "body"
    /\ backup_interval' = args.intervals[Len(args.intervals)]
    /\ args' = [args EXCEPT !.intervals = SubSeq(@, 1, Len(@) - 1)]
    /\ caller' = "backup"
    /\ shift_iv' = backup_interval'
    /\ hist' = Append(hist, Event("shift", backup_interval'))
    /\ pc' = "shift"
    /\ UNCHANGED <<wmvars, conf, fs, result, indicies, fs0, ops, dev, parts, stack, exc,
                   body_exc, entered, released, cmds, oi, linkdest_dir, subvolumes,
                   snaps, sv_todo, tq, txn, processes, procs_todo, dests>>

RunsBackup_Mut(interval) == TRUE

\* the test of CmdBackup.run that decides whether a backup is made
RunsBackup(interval) ==
    ~conf.intervals_run_only_lowest \/ index(conf.intervals, interval) = 0

run_decide ==
    /\ pc = "decide"
    /\ IF RunsBackup(backup_interval)
       THEN pc' = "backup" /\ UNCHANGED <<args, oi, hist>>
       ELSE /\ args' = [args EXCEPT !.intervals = Append(@, backup_interval)]
            /\ hist' = Append(hist, Event("nothing_to_do", backup_interval))
            /\ oi' = 1
            /\ pc' = "others"
    /\ UNCHANGED <<wmvars, conf, fs, result, shiftvars, dev, parts, stack, exc, body_exc,
                   entered, released, cmds, backup_interval, linkdest_dir, subvolumes,
                   snaps, sv_todo, tq, txn, processes, procs_todo, dests>>

\* a do_backup that links against the oldest generation
LinkdestDir_Mut(dir, interval) ==
    LET idx == IndexSet(dir, interval)
    IN  IF idx = {} THEN <<>> ELSE interval_dirname(interval, Max(idx))

\* do_backup: linkdest_dir, the generation of the lowest index present (None
\* when there is none)
LinkdestDir(dir, interval) ==
    LET idx == IndexSet(dir, interval)
    IN  IF idx = {} THEN <<>> ELSE interval_dirname(interval, Min(idx))

\* do_backup up to the snapshot loop of initialize_btrfs
do_backup_begin ==
    /\ pc = "backup"
    /\ linkdest_dir' = LinkdestDir(fs, backup_interval)
    /\ tq' = conf.targets
    /\ subvolumes' = <<>>
    /\ LET target_dir == interval_dirname(backup_interval, 0)
       IN  dests' = [t \in Range(conf.targets) |->
                        IF target_dir \in DOMAIN fs /\ fs[target_dir] = "gen"
                        THEN "old" ELSE "absent"]
    /\ IF conf.source_btrfs_snapshotdir = ""
       THEN pc' = "targets" /\ UNCHANGED <<sv_todo, exc, body_exc>>
       ELSE \E ok \in BOOLEAN :
               IF ok
               THEN /\ sv_todo' = conf.source_btrfs_volumes
                    /\ pc' = "btrfs_init"
                    /\ UNCHANGED <<exc, body_exc>>
               ELSE \* os.makedirs(sv_dest) is outside every try
                    /\ BodyRaise("OSError:makedirs_snapshotdir")
                    /\ UNCHANGED sv_todo
    /\ UNCHANGED <<wmvars, conf, fs, result, shiftvars, args, dev, parts, stack, entered,
                   released, cmds, backup_interval, oi, snaps, txn, processes,
                   procs_todo, hist>>

\* the commands of finalize_btrfs for the recorded roots q, the roots in failed
\* being those whose deletion exits non-zero
RECURSIVE DeleteCalls(_, _)
DeleteCalls(q, failed) ==
    IF q = <<>> THEN <<>>
    ELSE <<Call("btrfs_delete", Head(q) \notin failed)>> \o DeleteCalls(Tail(q), failed)

\* one iteration of the loop of initialize_btrfs; a failure ends in the bare
\* except, which calls finalize_btrfs and falls through to the return
initialize_btrfs_step ==
    /\ pc = "btrfs_init"
    /\ sv_todo # <<>>
    /\ LET sv_root == Head(sv_todo)
       IN  \E ok \in Outcomes :
              IF ok
              THEN /\ cmds' = Append(cmds, Call("btrfs_snapshot", TRUE))
                   /\ subvolumes' = Append(subvolumes, sv_root)
                   /\ snaps' = IF conf.dryrun THEN snaps ELSE snaps \cup {sv_root}
                   /\ sv_todo' = Tail(sv_todo)
                   /\ hist' = Append(hist, Event("snapshot", sv_root))
                   /\ pc' = IF Tail(sv_todo) = <<>> THEN "targets" ELSE "btrfs_init"
              ELSE \E failed \in SUBSET Range(subvolumes) :
                      /\ cmds' = Append(cmds, Call("btrfs_snapshot", FALSE))
                                   \o DeleteCalls(subvolumes, failed)
                      /\ snaps' = snaps \ (Range(subvolumes) \ failed)
                      /\ hist' = Append(hist, Event("snapshot_failed", sv_root))
                      /\ sv_todo' = <<>>
                      /\ pc' = "targets"
                      /\ UNCHANGED subvolumes
    /\ UNCHANGED <<wmvars, conf, fs, result, shiftvars, args, dev, parts, stack, exc, body_exc,
                   entered, released, backup_interval, oi, linkdest_dir, tq, txn,
                   processes, procs_todo, dests>>

\* an exception that leaves do_backup past its finally clause
Finally_Mut(e) == pc' = "exit" /\ exc' = e /\ body_exc' = e /\ sv_todo' = sv_todo

\* an exception leaves the try block of do_backup: the finally clause runs
Finally(e) == pc' = "btrfs_fin" /\ exc' = e /\ body_exc' = e /\ sv_todo' = subvolumes

\* one iteration of the loop of do_backup, up to the BackupTransaction
do_backup_target ==
    /\ pc = "targets"
    /\ tq # <<>>
    /\ LET target == Head(tq)
           target_dir == interval_dirname(backup_interval, 0)
           linkdest == IF /\ linkdest_dir # <<>>
                          /\ linkdest_dir \in DOMAIN fs
                          /\ fs[linkdest_dir] = "gen"
                       THEN linkdest_dir ELSE <<>>
       IN  \E ok \in BOOLEAN :
              IF ok
              THEN \* os.makedirs(dest) is not intercepted in dry-run
                   /\ fs' = IF target_dir \in DOMAIN fs THEN fs
                            ELSE [e \in DOMAIN fs \cup {target_dir} |->
                                     IF e = target_dir THEN "new" ELSE fs[e]]
                   /\ dests' = [dests EXCEPT ![target] = IF @ = "absent" THEN "empty" ELSE @]
                   /\ txn' = [target |-> target, dest |-> target_dir, linkdest |-> linkdest]
                   /\ pc' = "txn"
                   /\ UNCHANGED <<exc, body_exc, sv_todo>>
              ELSE /\ Finally("OSError:makedirs")
                   /\ UNCHANGED <<fs, txn, dests>>
    /\ UNCHANGED <<wmvars, conf, result, shiftvars, args, dev, parts, stack, entered,
                   released, cmds, backup_interval, oi, linkdest_dir, subvolumes, snaps,
                   tq, processes, procs_todo, hist>>

\* the return codes of rsync the model distinguishes
RsyncCodes == IF conf.dryrun THEN {0} ELSE {0, 1, 23, 24}

PartialTransfer_Mut(returncode) == FALSE

\* Context.rsync: the return codes that are only warned about
PartialTransfer(returncode) == returncode \in {23, 24}

\* Context.cp_al: the exception it raises (NoExc when it returns)
CpAl(ok) ==
    IF conf.cp_cmd THEN (IF ok THEN NoExc ELSE "CalledProcessError:cp")
    ELSE IF conf.dryrun THEN NoExc ELSE "NotImplementedError:cp"

\* Context.deltree: the exception it raises (NoExc when it returns)
Deltree(ok) == IF ok \/ conf.dryrun THEN NoExc ELSE DeltreeError

RollsBack_Mut(exc_type) == FALSE

\* the test of BackupTransaction.__exit__
RollsBack(exc_type) == exc_type # NoExc

\* what an rsync run that exits with returncode leaves in the destination
RsyncLeaves(returncode) ==
    IF returncode = 0 THEN "synced"
    ELSE IF returncode \in {23, 24} THEN "partial_transfer" ELSE "partial"

Caught(e) == e \in {"CalledProcessError:cp", "CalledProcessError:rsync", "CalledProcessError:rm"}

\* BackupTransaction: execute(), __exit__ and the except clause of do_backup
BackupTransaction_run ==
    /\ pc = "txn"
    /\ \E cp1 \in Outcomes, rc \in RsyncCodes, del \in Outcomes, cp2 \in Outcomes,
          broken \in {"absent", "partial_copy"} :
          LET bootstrap == txn.linkdest # <<>> /\ ~conf.rsync_linkdest
              e_boot == IF bootstrap THEN CpAl(cp1) ELSE NoExc
              e_exec == IF e_boot # NoExc THEN e_boot
                        ELSE IF rc = 0 \/ PartialTransfer(rc) THEN NoExc
                        ELSE "CalledProcessError:rsync"
              e_del == Deltree(del)
              e_back == IF e_del # NoExc THEN e_del
                        ELSE IF txn.linkdest # <<>> THEN CpAl(cp2) ELSE NoExc
              e == IF ~RollsBack(e_exec) THEN e_exec
                   ELSE IF e_back # NoExc THEN e_back ELSE e_exec
              outcome == IF e_exec = NoExc
                         THEN (IF rc = 0 THEN "ok" ELSE "partial")
                         ELSE IF ~RollsBack(e_exec) THEN "left"
                         ELSE IF e_back = NoExc THEN "rolled_back" ELSE "rollback_failed"
              d == dests[txn.target]
              d_boot == IF bootstrap /\ conf.cp_cmd /\ ~conf.dryrun /\ e_boot = NoExc
                        THEN "bootstrapped" ELSE d
              d_exec == IF e_boot # NoExc \/ conf.dryrun THEN d_boot ELSE RsyncLeaves(rc)
              d_back == IF e_del # NoExc THEN d_exec
                        ELSE IF txn.linkdest = <<>> \/ ~conf.cp_cmd THEN "absent"
                        ELSE IF e_back = NoExc THEN "linkcopy" ELSE broken
          IN  /\ hist' = Append(hist, Event("sync",
                    [target |-> txn.target, linkdest |-> txn.linkdest,
                     rc |-> IF e_boot = NoExc THEN rc ELSE -1,
                     outcome |-> outcome, raised |-> e]))
              /\ dests' = [dests EXCEPT ![txn.target] =
                               IF RollsBack(e_exec) THEN d_back ELSE d_exec]
              /\ cmds' = cmds
                    \o (IF bootstrap /\ conf.cp_cmd
                        THEN <<Call("cp_al", e_boot = NoExc)>> ELSE <<>>)
                    \o (IF e_boot = NoExc
                        THEN <<Call("rsync", e_exec = NoExc)>> ELSE <<>>)
                    \o (IF RollsBack(e_exec) /\ conf.rm_cmd
                        THEN <<Call("rm", e_del = NoExc)>> ELSE <<>>)
                    \o (IF RollsBack(e_exec) /\ e_del = NoExc /\ txn.linkdest # <<>>
                           /\ conf.cp_cmd
                        THEN <<Call("cp_al", e_back = NoExc)>> ELSE <<>>)
              /\ IF e = NoExc \/ Caught(e)
                 THEN /\ tq' = Tail(tq)
                      /\ pc' = "targets"
                      /\ UNCHANGED <<exc, body_exc, sv_todo>>
                 ELSE /\ Finally(e)
                      /\ UNCHANGED tq
    /\ txn' = <<>>
    /\ UNCHANGED <<wmvars, conf, fs, result, shiftvars, args, dev, parts, stack,
                   entered, released, backup_interval, oi, linkdest_dir, subvolumes,
                   snaps, processes, procs_todo>>

\* a do_backup without the finally clause
do_backup_finally_Mut ==
    /\ pc = "targets"
    /\ tq = <<>>
    /\ sv_todo' = <<>>
    /\ pc' = "btrfs_fin"
    /\ UNCHANGED <<wmvars, conf, fs, result, shiftvars, devvars, backup_interval, oi,
                   linkdest_dir, subvolumes, snaps, tq, txn, processes, procs_todo, hist, dests>>

\* the loop of do_backup is over: the finally clause runs
do_backup_finally ==
    /\ pc = "targets"
    /\ tq = <<>>
    /\ sv_todo' = subvolumes
    /\ pc' = "btrfs_fin"
    /\ UNCHANGED <<wmvars, conf, fs, result, shiftvars, devvars, backup_interval, oi,
                   linkdest_dir, subvolumes, snaps, tq, txn, processes, procs_todo, hist, dests>>

\* a finalize_btrfs that gives up at the first deletion that fails
finalize_btrfs_step_Mut ==
    /\ pc = "btrfs_fin"
    /\ sv_todo # <<>>
    /\ \E ok \in Outcomes :
          /\ cmds' = Append(cmds, Call("btrfs_delete", ok))
          /\ snaps' = IF ok /\ ~conf.dryrun THEN snaps \ {Head(sv_todo)} ELSE snaps
          /\ hist' = Append(hist, Event("snapshot_delete", Head(sv_todo)))
          /\ sv_todo' = IF ok THEN Tail(sv_todo) ELSE <<>>
    /\ UNCHANGED <<wmvars, conf, fs, pc, result, shiftvars, args, dev, parts, stack, exc,
                   body_exc, entered, released, backup_interval, oi, linkdest_dir,
                   subvolumes, tq, txn, processes, procs_todo, dests>>

\* one iteration of the loop of finalize_btrfs
finalize_btrfs_step ==
    /\ pc = "btrfs_fin"
    /\ sv_todo # <<>>
    /\ \E ok \in Outcomes :
          /\ cmds' = Append(cmds, Call("btrfs_delete", ok))
          /\ snaps' = IF ok /\ ~conf.dryrun THEN snaps \ {Head(sv_todo)} ELSE snaps
          /\ hist' = Append(hist, Event("snapshot_delete", Head(sv_todo)))
    /\ sv_todo' = Tail(sv_todo)
    /\ UNCHANGED <<wmvars, conf, fs, pc, result, shiftvars, args, dev, parts, stack, exc,
                   body_exc, entered, released, backup_interval, oi, linkdest_dir,
                   subvolumes, tq, txn, processes, procs_todo, dests>>

\* do_backup returns, or the exception in flight leaves it
do_backup_return ==
    /\ pc = "btrfs_fin"
    /\ sv_todo = <<>>
    /\ IF exc # NoExc
       THEN pc' = "exit" /\ UNCHANGED oi
       ELSE pc' = "others" /\ oi' = 1
    /\ UNCHANGED <<wmvars, conf, fs, result, shiftvars, args, dev, parts, stack, exc, body_exc,
                   entered,
                   released, cmds, backup_interval, linkdest_dir, subvolumes, snaps,
                   sv_todo, tq, txn, processes, procs_todo, hist, dests>>

\* a run that clones without shifting the other intervals
run_others_Mut ==
    /\ pc = "others"
    /\ pc' = "clone"
    /\ UNCHANGED <<wmvars, conf, fs, result, shiftvars, devvars, runvars>>

\* CmdBackup.run: the loop over the other intervals
run_others ==
    /\ pc = "others"
    /\ IF oi <= Len(args.intervals)
       THEN /\ caller' = "other"
            /\ shift_iv' = args.intervals[oi]
            /\ oi' = oi + 1
            /\ hist' = Append(hist, Event("shift", args.intervals[oi]))
            /\ pc' = "shift"
       ELSE /\ pc' = "clone"
            /\ UNCHANGED <<caller, shift_iv, oi, hist>>
    /\ UNCHANGED <<wmvars, conf, fs, result, indicies, fs0, ops, devvars, backup_interval,
                   linkdest_dir, subvolumes, snaps, sv_todo, tq, txn, processes,
                   procs_todo, dests>>

\* clone_intervals up to its first loop
clone_intervals_begin ==
    /\ pc = "clone"
    /\ IF args.intervals = <<>>
       THEN pc' = "exit" /\ UNCHANGED procs_todo
       ELSE pc' = "clone_start" /\ procs_todo' = args.intervals
    /\ UNCHANGED <<wmvars, conf, fs, result, shiftvars, devvars, backup_interval, oi,
                   linkdest_dir, subvolumes, snaps, sv_todo, tq, txn, processes, hist, dests>>

Process(state, returncode, dirname) ==
    [state |-> state, returncode |-> returncode, dirname |-> dirname]

\* one iteration of the first loop of clone_intervals: Context.cp_al_async
clone_intervals_start ==
    /\ pc = "clone_start"
    /\ procs_todo # <<>>
    /\ LET dirname == interval_dirname(Head(procs_todo), 0)
           started(p) ==
               /\ processes' = Append(processes, p)
               /\ procs_todo' = Tail(procs_todo)
               /\ pc' = IF Tail(procs_todo) = <<>> THEN "clone_poll" ELSE "clone_start"
               /\ hist' = Append(hist, Event("clone_start", dirname))
               /\ UNCHANGED <<exc, body_exc>>
       IN  IF conf.cp_cmd
           THEN IF conf.dryrun
                THEN started(Process("exited", 0, dirname))        \* NullProcess
                ELSE \E ok \in BOOLEAN :
                        IF ok THEN started(Process("running", 0, dirname))
                        ELSE /\ BodyRaise("OSError:Popen")
                             /\ UNCHANGED <<processes, procs_todo, hist>>
           ELSE IF conf.dryrun
                THEN started(Process("none", 0, dirname))          \* returns None
                ELSE /\ BodyRaise("NotImplementedError:cp")
                     /\ UNCHANGED <<processes, procs_todo, hist>>
    /\ UNCHANGED <<wmvars, conf, fs, result, shiftvars, args, dev, parts, stack, entered,
                   released, cmds, backup_interval, oi, linkdest_dir, subvolumes, snaps,
                   sv_todo, tq, txn, dests>>

\* a clone process (cp -al <primary>.0 <sibling>.0) exits
process_exit(i) ==
    /\ i \in 1..Len(processes)
    /\ processes[i].state = "running"
    /\ LET srcname == interval_dirname(backup_interval, 0)
           dirname == processes[i].dirname
       IN  \E returncode \in {0, 1} :
              /\ returncode = 0 => srcname \in DOMAIN fs
              /\ processes' = [processes EXCEPT ![i] = Process("exited", returncode, dirname)]
              /\ fs' = IF srcname \in DOMAIN fs /\ dirname \notin DOMAIN fs
                       THEN [e \in DOMAIN fs \cup {dirname} |->
                                IF e = dirname
                                THEN (IF returncode = 0 THEN "clone" ELSE "partial")
                                ELSE fs[e]]
                       ELSE fs
    /\ UNCHANGED <<wmvars, conf, pc, result, shiftvars, devvars, backup_interval, oi,
                   linkdest_dir, subvolumes, snaps, sv_todo, tq, txn, procs_todo, hist, dests>>

RECURSIVE Observed(_, _)
Observed(q, i) ==
    IF i > Len(q) THEN <<>>
    ELSE (IF q[i].state = "exited"
          THEN <<Event("clone_returned", <<q[i].dirname, q[i].returncode>>)>>
          ELSE <<>>) \o Observed(q, i + 1)

\* a polling loop whose process.wait has no timeout: a round ends only when
\* every process of the list has exited
clone_intervals_poll_Mut ==
    /\ pc = "clone_poll"
    /\ processes # <<>>
    /\ \A i \in 1..Len(processes) : processes[i].state = "exited"
    /\ hist' = hist \o Observed(processes, 1)
                  \o <<Event("clone_finished", processes[Len(processes)].dirname)>>
    /\ processes' = SubSeq(processes, 1, Len(processes) - 1)
    /\ UNCHANGED <<wmvars, conf, fs, pc, result, shiftvars, devvars, backup_interval, oi,
                   linkdest_dir, subvolumes, snaps, sv_todo, tq, txn, procs_todo, dests>>

\* one round of the polling loop of clone_intervals in which a process.wait
\* returned (a round of timeouts changes nothing)
clone_intervals_poll ==
    /\ pc = "clone_poll"
    /\ processes # <<>>
    /\ IF processes[1].state = "none"
       THEN /\ BodyRaise("AttributeError:wait")
            /\ UNCHANGED <<processes, hist>>
       ELSE LET exited == {i \in 1..Len(processes) : processes[i].state = "exited"}
                remove_idx == Max(exited)
            IN  /\ exited # {}
                /\ processes' = SubSeq(processes, 1, remove_idx - 1)
                                   \o SubSeq(processes, remove_idx + 1, Len(processes))
                /\ hist' = hist \o Observed(processes, 1)
                              \o <<Event("clone_finished", processes[remove_idx].dirname)>>
                /\ UNCHANGED <<pc, exc, body_exc>>
    /\ UNCHANGED <<wmvars, conf, fs, result, shiftvars, args, dev, parts, stack, entered,
                   released, cmds, backup_interval, oi, linkdest_dir, subvolumes, snaps,
                   sv_todo, tq, txn, procs_todo, dests>>

\* a clone_intervals that returns without waiting for its processes
clone_intervals_return_Mut ==
    /\ pc = "clone_poll"
    /\ pc' = "exit"
    /\ UNCHANGED <<wmvars, conf, fs, result, shiftvars, devvars, runvars>>

clone_intervals_return ==
    /\ pc = "clone_poll"
    /\ processes = <<>>
    /\ pc' = "exit"
    /\ UNCHANGED <<wmvars, conf, fs, result, shiftvars, devvars, runvars>>

\* the run is interrupted while clone_intervals waits for a process: the
\* KeyboardInterrupt raised in process.wait meets no handler in clone_intervals
clone_intervals_interrupt ==
    /\ pc = "clone_poll"
    /\ processes # <<>>
    /\ processes[1].state # "none"
    /\ BodyRaise("KeyboardInterrupt")
    /\ UNCHANGED <<wmvars, conf, fs, result, shiftvars, args, dev, parts, stack, entered,
                   released, cmds, runvars>>

(***************************************************************************)
(* backup.py: substitute_btrfs_snapshot and the source path of a target.   *)
(* Paths are sequences of characters.                                      *)
(***************************************************************************)
\* str.startswith
startswith(q, prefix) ==
    Len(prefix) <= Len(q) /\ SubSeq(q, 1, Len(prefix)) = prefix

\* os.path.join(a, b)
os_path_join(a, b) ==
    IF startswith(b, <<"/">>) THEN b
    ELSE IF a = <<>> \/ a[Len(a)] = "/" THEN a \o b
    ELSE a \o <<"/">> \o b

\* sv_root.replace("/", "__")
RECURSIVE replace_slash(_)
replace_slash(q) ==
    IF q = <<>> THEN <<>>
    ELSE (IF Head(q) = "/" THEN <<"_", "_">> ELSE <<Head(q)>>) \o replace_slash(Tail(q))

\* initialize_btrfs: subvolumes[sv_root] = os.path.join(sv_dest, sv_name)
SnapshotPath(sv_root) ==
    os_path_join(conf.source_btrfs_snapshotdir, replace_slash(sv_root))

\* the loop of substitute_btrfs_snapshot over the items from position i on;
\* longest_match is <<>> for None (no root is the empty string)
RECURSIVE LongestMatch(_, _, _, _)
LongestMatch(roots, i, source_path, longest_match) ==
    IF i > Len(roots) THEN longest_match
    ELSE LET sv_root == roots[i]
         IN  IF /\ startswith(source_path, sv_root)
                /\ (longest_match = <<>> \/ Len(sv_root) > Len(longest_match))
             THEN LongestMatch(roots, i + 1, source_path, sv_root)
             ELSE LongestMatch(roots, i + 1, source_path, longest_match)

substitute_btrfs_snapshot(roots, source_path) ==
    LET longest_match == LongestMatch(roots, 1, source_path, <<>>)
        new_path == SubSeq(source_path, Len(longest_match) + 1, Len(source_path))
        stripped == IF startswith(new_path, <<"/">>) THEN Tail(new_path) ELSE new_path
    IN  IF longest_match = <<>> THEN source_path
        ELSE os_path_join(SnapshotPath(longest_match), stripped)

\* do_backup: the source handed to the BackupTransaction of a target
do_backup_source ==
    /\ pc = "source"
    /\ LET source == txn.target.source_prefix \o txn.target.source
       IN  txn' = [txn EXCEPT !.source =
                      IF txn.target.local
                      THEN substitute_btrfs_snapshot(subvolumes, source)
                      ELSE source]
    /\ pc' = "done"
    /\ UNCHANGED <<wmvars, conf, fs, result, shiftvars, devvars, backup_interval, oi,
                   linkdest_dir, subvolumes, snaps, sv_todo, tq, processes,
                   procs_todo, hist, dests>>

(***************************************************************************)
(* weeklymonthly.py                                                        *)
(***************************************************************************)
\* a datetime; NoRun stands for None
Datetime(y, mo, d, h, mi, sec, us) ==
    [year |-> y, month |-> mo, day |-> d, hour |-> h, minute |-> mi, second |-> sec,
     microsecond |-> us]

NoRun == Datetime(0, 0, 0, 0, 0, 0, 0)

IsLeap(y) == y % 4 = 0 /\ (y % 100 # 0 \/ y % 400 = 0)

DaysInMonth(y, mo) ==
    IF mo = 2 THEN (IF IsLeap(y) THEN 29 ELSE 28)
    ELSE IF mo \in {4, 6, 9, 11} THEN 30 ELSE 31

DaysBeforeYear(y) == (y - 1) * 365 + (y - 1) \div 4 - (y - 1) \div 100 + (y - 1) \div 400

RECURSIVE DaysBeforeMonth(_, _)
DaysBeforeMonth(y, mo) ==
    IF mo = 1 THEN 0 ELSE DaysBeforeMonth(y, mo - 1) + DaysInMonth(y, mo - 1)

\* date.toordinal(): 0001-01-01 is day 1
toordinal(dt) == DaysBeforeYear(dt.year) + DaysBeforeMonth(dt.year, dt.month) + dt.day

\* date.weekday(): Monday is 0
dayofweek(dt) == (toordinal(dt) + 6) % 7

SecondOfDay(dt) == dt.hour * 3600 + dt.minute * 60 + dt.second

\* (current - last).days: a timedelta is normalised so that its seconds and
\* microseconds are not negative
timedelta_days(last, current) ==
    LET d == toordinal(current) - toordinal(last)
        sec == SecondOfDay(current) - SecondOfDay(last)
        us == current.microsecond - last.microsecond
    IN  IF sec < 0 \/ (sec = 0 /\ us < 0) THEN d - 1 ELSE d

\* an is_monthly that compares the months only
is_monthly_Mut(last, current) == last.month # current.month

is_monthly(last, current) ==
    LET replace(dt) == [dt EXCEPT !.day = 1, !.hour = 0, !.minute = 0, !.second = 0,
                                  !.microsecond = 0]
    IN  replace(last) # replace(current)

is_weekly(last, current) ==
    IF timedelta_days(last, current) >= 7 THEN TRUE
    ELSE IF dayofweek(last) = dayofweek(current) THEN FALSE
    ELSE IF dayofweek(current) < dayofweek(last) THEN TRUE
    ELSE FALSE

\* the decimal digits of n, padded with zeros to the width w
RECURSIVE Pad(_, _)
Pad(n, w) == IF Len(str(n)) >= w THEN str(n) ELSE <<"0">> \o Pad(n, w - 1)

\* datetime.strftime(fmt) with fmt = "%Y-%m-%dT%H:%M:%S"
strftime(dt) ==
    Pad(dt.year, 4) \o <<"-">> \o Pad(dt.month, 2) \o <<"-">> \o Pad(dt.day, 2) \o <<"T">>
    \o Pad(dt.hour, 2) \o <<":">> \o Pad(dt.minute, 2) \o <<":">> \o Pad(dt.second, 2)

\* datetime.strptime(s, fmt) of a string strftime has written
strptime(s) ==
    Datetime(DigitsVal(SubSeq(s, 1, 4)), DigitsVal(SubSeq(s, 6, 7)),
             DigitsVal(SubSeq(s, 9, 10)), DigitsVal(SubSeq(s, 12, 13)),
             DigitsVal(SubSeq(s, 15, 16)), DigitsVal(SubSeq(s, 18, 19)), 0)

\* str.strip() of the content of the state file
RECURSIVE strip(_)
strip(s) ==
    IF s # <<>> /\ s[Len(s)] = "\n" THEN strip(SubSeq(s, 1, Len(s) - 1))
    ELSE IF s # <<>> /\ s[1] = "\n" THEN strip(Tail(s))
    ELSE s

WmYears == {2015, 2016}
WmMonths == {6, 7}
WmHours == {6, 12}

\* the times of the runs of the model: the first MaxDay days of two months of
\* two years, at two times of day
WmTimes ==
    {Datetime(y, mo, d, h, 0, 0, 0) : y \in WmYears, mo \in WmMonths, d \in 1..MaxDay,
                                      h \in WmHours}

\* datetime.utcnow(): a time with microseconds
WmClocks == {[t EXCEPT !.microsecond = us] : t \in WmTimes, us \in {0, 500000}}

SameSecond(a, b) == [a EXCEPT !.microsecond = 0] = [b EXCEPT !.microsecond = 0]

Later(c) ==
    {d \in WmClocks :
        \/ SameSecond(c, d) /\ d.microsecond >= c.microsecond
        \/ /\ SecondOfDay(d) = SecondOfDay(c) /\ d.microsecond = c.microsecond
           /\ toordinal(d) - toordinal(c) \in {1, 7}}

\* the runs of the wrapper that have ended: by sys.exit or by os.execv
WmRuns == Cardinality({i \in 1..Len(hist) : hist[i].ev \in {"wm_exit", "wm_exec"}})

\* __main__: reading of the state file, this_run, and the exit when the last
\* run was in the same second
wm_read ==
    /\ pc = "wm_start"
    /\ last_run' = IF state_file.exists THEN strptime(strip(state_file.content)) ELSE NoRun
    /\ this_run' = [clock EXCEPT !.microsecond = 0]
    /\ IF last_run' # NoRun /\ this_run' = last_run'
       THEN /\ pc' = "wm_done"
            /\ result' = "1"
            /\ hist' = Append(hist, Event("wm_exit", this_run'))
       ELSE /\ pc' = "wm_write"
            /\ UNCHANGED <<result, hist>>
    /\ UNCHANGED <<clock, state_file, commandline, conf, fs, shiftvars, devvars,
                   backup_interval, oi, linkdest_dir, subvolumes, snaps, sv_todo, tq, txn,
                   processes, procs_todo, dests>>

\* a wrapper that does not record the run
wm_write_Mut ==
    /\ pc = "wm_write"
    /\ pc' = "wm_exec"
    /\ UNCHANGED <<state_file, hist>>
    /\ UNCHANGED <<clock, last_run, this_run, commandline, conf, fs, result, shiftvars,
                   devvars, backup_interval, oi, linkdest_dir, subvolumes, snaps, sv_todo,
                   tq, txn, processes, procs_todo, dests>>

\* __main__: writing of the state file
wm_write ==
    /\ pc = "wm_write"
    /\ state_file' = [exists |-> TRUE, content |-> strftime(this_run) \o <<"\n">>]
    /\ hist' = Append(hist, Event("wm_write", state_file'.content))
    /\ pc' = "wm_exec"
    /\ UNCHANGED <<clock, last_run, this_run, commandline, conf, fs, result, shiftvars,
                   devvars, backup_interval, oi, linkdest_dir, subvolumes, snaps, sv_todo,
                   tq, txn, processes, procs_todo, dests>>

\* __main__: the arguments appended to the command line, and os.execv
wm_exec ==
    /\ pc = "wm_exec"
    /\ commandline' =
          commandline
          \o (IF last_run # NoRun /\ is_weekly(last_run, this_run)
              THEN <<args.weekly>> ELSE <<>>)
          \o (IF last_run # NoRun /\ is_monthly(last_run, this_run)
              THEN <<args.monthly>> ELSE <<>>)
    /\ hist' = Append(hist, Event("wm_exec", [commandline |-> commandline',
                                              last_run |-> last_run,
                                              this_run |-> this_run]))
    /\ result' = "execv"
    /\ pc' = "wm_done"
    /\ UNCHANGED <<clock, state_file, last_run, this_run, conf, fs, shiftvars, devvars,
                   backup_interval, oi, linkdest_dir, subvolumes, snaps, sv_todo, tq, txn,
                   processes, procs_todo, dests>>

\* the next invocation of the wrapper with the same arguments: at once, or one
\* day or one week later at the same time of day
wm_later ==
    /\ pc = "wm_done"
    /\ WmRuns < MaxRuns
    /\ clock' \in Later(clock)
    /\ pc' = "wm_start"
    /\ result' = "running"
    /\ last_run' = NoRun
    /\ this_run' = NoRun
    /\ commandline' = args.commandline
    /\ UNCHANGED <<state_file, conf, fs, shiftvars, devvars, runvars>>

WmIdle ==
    /\ clock = NoRun
    /\ state_file = [exists |-> FALSE, content |-> <<>>]
    /\ last_run = NoRun
    /\ this_run = NoRun
    /\ commandline = <<>>

(***************************************************************************)
(* do_shift on its own, for every small directory listing.                 *)
(***************************************************************************)
Tags == {"gen", "empty"}

ShiftSuffixes ==
    {str(i) : i \in 0..MaxIndex} \cup {<<"0">> \o str(i) : i \in 0..MaxPad} \cup {<<"x">>}

ShiftNames == {<<"daily", s>> : s \in ShiftSuffixes}

Listings(names) ==
    UNION {[D -> Tags] : D \in {X \in SUBSET names : Cardinality(X) <= MaxDirs}}

\* the state of the variables of the device stack before the with statement
RunIdle ==
    /\ backup_interval = ""
    /\ oi = 0
    /\ linkdest_dir = <<>>
    /\ subvolumes = <<>>
    /\ snaps = {}
    /\ sv_todo = <<>>
    /\ tq = <<>>
    /\ txn = <<>>
    /\ processes = <<>>
    /\ procs_todo = <<>>
    /\ hist = <<>>
    /\ dests = <<>>

DevIdle ==
    /\ parts = <<>>
    /\ stack = <<>>
    /\ exc = NoExc
    /\ body_exc = NoExc
    /\ entered = <<>>
    /\ released = <<>>
    /\ cmds = <<>>

ShiftIdle ==
    /\ caller = "none"
    /\ shift_iv = "daily"
    /\ indicies = <<>>
    /\ fs0 = fs
    /\ ops = <<>>

InitShift ==
    /\ conf \in [dryrun : BOOLEAN, rm_cmd : BOOLEAN,
                 intervals_shiftdepth : [{"daily"} -> 0..MaxDepth],
                 dest_mount : {FALSE}, dest_device_suspend : {FALSE},
                 dest_cryptsetup : {FALSE}]
    /\ fs \in Listings(ShiftNames)
    /\ pc = "shift"
    /\ result = "running"
    /\ ShiftIdle
    /\ args = [intervals |-> <<"daily">>, umount |-> TRUE, force_umount |-> FALSE]
    /\ dev = [present |-> TRUE, mapped |-> FALSE, mounted |-> FALSE, cwd |-> "dest_root"]
    /\ DevIdle
    /\ WmIdle
    /\ RunIdle

NextShift ==
    \/ do_shift_begin
    \/ do_shift_deltree
    \/ do_shift_rename
    \/ do_shift_return

SpecShift == InitShift /\ [][NextShift]_vars

(***************************************************************************)
(* do_shift over listings with entries whose suffix carries a sign.        *)
(***************************************************************************)
SignedSuffixes ==
    {str(i) : i \in 0..1} \cup {<<"-">> \o str(i) : i \in 1..2} \cup {<<"+", "1">>, <<"x">>}

SignedNames == {<<"daily", s>> : s \in SignedSuffixes}

InitSigned ==
    /\ conf \in [dryrun : BOOLEAN, rm_cmd : BOOLEAN,
                 intervals_shiftdepth : [{"daily"} -> 0..MaxDepth],
                 dest_mount : {FALSE}, dest_device_suspend : {FALSE},
                 dest_cryptsetup : {FALSE}]
    /\ fs \in Listings(SignedNames)
    /\ pc = "shift"
    /\ result = "running"
    /\ ShiftIdle
    /\ args = [intervals |-> <<"daily">>, umount |-> TRUE, force_umount |-> FALSE]
    /\ dev = [present |-> TRUE, mapped |-> FALSE, mounted |-> FALSE, cwd |-> "dest_root"]
    /\ DevIdle
    /\ WmIdle
    /\ RunIdle

SpecSigned == InitSigned /\ [][NextShift]_vars

(***************************************************************************)
(* The device stack around an opaque with body, for every configuration    *)
(* of the destination and every state the device can be found in.          *)
(***************************************************************************)
InitDev ==
    /\ conf \in [dryrun : BOOLEAN, rm_cmd : {TRUE},
                 intervals_shiftdepth : {[i \in {"daily"} |-> 0]},
                 dest_mount : BOOLEAN, dest_device_suspend : BOOLEAN,
                 dest_cryptsetup : BOOLEAN]
    /\ args \in [intervals : {<<"daily">>}, umount : BOOLEAN, force_umount : BOOLEAN]
    /\ dev \in [present : BOOLEAN, mapped : BOOLEAN, mounted : BOOLEAN, cwd : {"start"}]
    /\ fs = <<>>
    /\ pc = "with"
    /\ result = "running"
    /\ ShiftIdle
    /\ DevIdle
    /\ WmIdle
    /\ RunIdle

NextDev ==
    \/ DeviceContext_enter
    \/ WaitContext_enter
    \/ SuspendContext_enter
    \/ CryptoContext_enter
    \/ MountContext_enter
    \/ DirectoryContext_enter
    \/ with_body
    \/ DirectoryContext_exit
    \/ MountContext_exit
    \/ CryptoContext_exit
    \/ SuspendContext_exit
    \/ WaitContext_exit
    \/ ExitStack_exit_end

SpecDev == InitDev /\ [][NextDev]_vars

(***************************************************************************)
(* A whole run of CmdBackup.run on a destination that has to be mounted.   *)
(***************************************************************************)
Requests ==
    {<<"daily">>, <<"weekly">>, <<"daily", "weekly">>, <<"weekly", "daily">>,
     <<"daily", "hourly">>}

RunNames == {<<"daily", <<"0">>>>, <<"daily", <<"2">>>>, <<"weekly", <<"0">>>>}

Init ==
    /\ conf \in [dryrun : BOOLEAN, rm_cmd : BOOLEAN, cp_cmd : BOOLEAN,
                 rsync_linkdest : {TRUE},
                 intervals : {<<"daily", "weekly">>},
                 intervals_run_only_lowest : BOOLEAN,
                 intervals_shiftdepth :
                     {[i \in {"daily", "weekly"} |-> n] : n \in 0..MaxRunDepth},
                 source_btrfs_snapshotdir : {"/snap"},
                 source_btrfs_volumes : {<<"/", "/home">>},
                 targets : {<<"etc", "home">>},
                 dest_mount : {TRUE}, dest_device_suspend : {FALSE},
                 dest_cryptsetup : {FALSE}]
    /\ args \in [intervals : Requests, umount : {TRUE}, force_umount : {FALSE}]
    /\ dev = [present |-> TRUE, mapped |-> FALSE, mounted |-> FALSE, cwd |-> "start"]
    /\ fs \in {[d \in names |-> "gen"] : names \in SUBSET RunNames}
    /\ pc = "start"
    /\ result = "running"
    /\ ShiftIdle
    /\ DevIdle
    /\ WmIdle
    /\ RunIdle

Next ==
    \/ run_sort
    \/ DeviceContext_enter
    \/ WaitContext_enter
    \/ MountContext_enter
    \/ DirectoryContext_enter
    \/ run_body_begin
    \/ do_shift_begin
    \/ do_shift_deltree
    \/ do_shift_rename
    \/ do_shift_return
    \/ run_decide
    \/ do_backup_begin
    \/ initialize_btrfs_step
    \/ do_backup_target
    \/ BackupTransaction_run
    \/ do_backup_finally
    \/ finalize_btrfs_step
    \/ do_backup_return
    \/ run_others
    \/ clone_intervals_begin
    \/ clone_intervals_start
    \/ \E i \in 1..Len(processes) : process_exit(i)
    \/ clone_intervals_poll
    \/ clone_intervals_return
    \/ DirectoryContext_exit
    \/ MountContext_exit
    \/ WaitContext_exit
    \/ ExitStack_exit_end

Spec == Init /\ [][Next]_vars

(***************************************************************************)
(* clone_intervals on its own, for up to three destination intervals, with *)
(* the clone processes exiting in any order and an interrupt at any time   *)
(* of the polling loop.                                                    *)
(***************************************************************************)
\* the dest_intervals CmdBackup.run can pass for the source interval daily
CloneRequests ==
    {<<>>, <<"weekly">>, <<"monthly", "weekly">>, <<"yearly", "monthly", "weekly">>,
     <<"daily">>}

InitClone ==
    /\ conf \in [dryrun : BOOLEAN, rm_cmd : {TRUE}, cp_cmd : BOOLEAN,
                 intervals : {<<"daily", "weekly", "monthly", "yearly">>}]
    /\ args \in [intervals : CloneRequests, umount : {TRUE}, force_umount : {FALSE}]
    /\ dev = [present |-> TRUE, mapped |-> FALSE, mounted |-> FALSE, cwd |-> "dest_root"]
    /\ fs \in {[d \in names |-> "gen"] : names \in SUBSET {<<"daily", <<"0">>>>}}
    /\ pc = "clone"
    /\ result = "running"
    /\ ShiftIdle
    /\ DevIdle
    /\ WmIdle
    /\ backup_interval = "daily"
    /\ oi = Len(args.intervals) + 1
    /\ linkdest_dir = <<>>
    /\ subvolumes = <<>>
    /\ snaps = {}
    /\ sv_todo = <<>>
    /\ tq = <<>>
    /\ txn = <<>>
    /\ processes = <<>>
    /\ procs_todo = <<>>
    /\ hist = <<>>
    /\ dests = <<>>

NextCloneRun ==
    \/ clone_intervals_begin
    \/ clone_intervals_start
    \/ \E i \in 1..Len(processes) : process_exit(i)
    \/ clone_intervals_poll
    \/ clone_intervals_return

NextClone ==
    \/ NextCloneRun
    \/ clone_intervals_interrupt

SpecClone == InitClone /\ [][NextClone]_vars

\* clone_intervals left alone by interrupts; the statements of clone_intervals
\* keep running (process.wait gives up after its timeout), while nothing is
\* assumed about the time a clone process takes
SpecCloneLive ==
    /\ InitClone
    /\ [][NextCloneRun]_vars
    /\ WF_vars(clone_intervals_begin)
    /\ WF_vars(clone_intervals_start)
    /\ WF_vars(clone_intervals_poll)
    /\ WF_vars(clone_intervals_return)

(***************************************************************************)
(* The source path of one target, for every short absolute path and every  *)
(* snapshot mapping over the roots / and /a, in every iteration order.     *)
(***************************************************************************)
PathChars == {"/", "a", "b"}

Paths ==
    UNION {{<<"/">> \o q : q \in [1..n -> PathChars]} : n \in 0..(MaxPath - 1)}

Roots == {<<"/">>, <<"/", "a">>}

\* the insertion orders of the mappings over a subset of the roots
Mappings ==
    {q \in UNION {[1..n -> Roots] : n \in 0..Cardinality(Roots)} :
        \A i \in 1..Len(q) : \A j \in 1..Len(q) : i # j => q[i] # q[j]}

InitSubst ==
    /\ conf = [dryrun |-> FALSE, source_btrfs_snapshotdir |-> <<"/", "s">>]
    /\ txn \in [target : [local : BOOLEAN, source_prefix : {<<>>}, source : Paths],
                 source : {<<>>}]
    /\ subvolumes \in Mappings
    /\ pc = "source"
    /\ result = "running"
    /\ fs = <<>>
    /\ ShiftIdle
    /\ args = [intervals |-> <<"daily">>, umount |-> TRUE, force_umount |-> FALSE]
    /\ dev = [present |-> TRUE, mapped |-> FALSE, mounted |-> FALSE, cwd |-> "dest_root"]
    /\ DevIdle
    /\ WmIdle
    /\ backup_interval = "daily"
    /\ oi = 0
    /\ linkdest_dir = <<>>
    /\ snaps = {}
    /\ sv_todo = <<>>
    /\ tq = <<>>
    /\ processes = <<>>
    /\ procs_todo = <<>>
    /\ hist = <<>>
    /\ dests = <<>>

NextSubst == do_backup_source

SpecSubst == InitSubst /\ [][NextSubst]_vars

(***************************************************************************)
(* The wrapper weeklymonthly, run up to MaxRuns times over one state file. *)
(***************************************************************************)
InitWm ==
    /\ conf = [dryrun |-> FALSE]
    /\ args = [weekly |-> "weekly", monthly |-> "monthly",
               commandline |-> <<"backupcopter", "backup", "daily">>]
    /\ clock \in WmClocks
    /\ state_file \in {[exists |-> FALSE, content |-> <<>>]}
                      \cup {[exists |-> TRUE, content |-> strftime(t) \o <<"\n">>] :
                               t \in WmTimes}
    /\ last_run = NoRun
    /\ this_run = NoRun
    /\ commandline = args.commandline
    /\ pc = "wm_start"
    /\ result = "running"
    /\ fs = <<>>
    /\ dev = [present |-> TRUE, mapped |-> FALSE, mounted |-> FALSE, cwd |-> "start"]
    /\ ShiftIdle
    /\ parts = <<>> /\ stack = <<>> /\ exc = NoExc /\ body_exc = NoExc
    /\ entered = <<>> /\ released = <<>> /\ cmds = <<>>
    /\ RunIdle

NextWm ==
    \/ wm_read
    \/ wm_write
    \/ wm_exec
    \/ wm_later

SpecWm == InitWm /\ [][NextWm]_vars

(***************************************************************************)
(* Claims about do_shift (checked under SpecShift).                        *)
(***************************************************************************)
ShiftCompleted == caller = "none" /\ pc = "done" /\ result = "ok" /\ ~conf.dryrun

Deleted == {ops[i].src : i \in {j \in 1..Len(ops) : ops[j].op = "deltree"}}

\* C1: after do_shift (not in dry-run) with depth N > 0 the indices present are
\* {i+1 : i in old, i < N-1}; with depth 0 nothing is deleted and the indices
\* present are {i+1 : i in old}.
C1_ShiftResult ==
    ShiftCompleted =>
        LET N == conf.intervals_shiftdepth[shift_iv]
            old == IndexSet(fs0, shift_iv)
        IN  /\ N > 0 => IndexSet(fs, shift_iv) = {i + 1 : i \in {j \in old : j < N - 1}}
            /\ N = 0 => /\ IndexSet(fs, shift_iv) = {i + 1 : i \in old}
                        /\ Deleted = {}

C1_Witness ==
    /\ ShiftCompleted
    /\ conf.intervals_shiftdepth[shift_iv] = 2
    /\ IndexSet(fs0, shift_iv) = {0, 1, 3}
    /\ IndexSet(fs, shift_iv) = {1}
    /\ Cardinality(Deleted) = 2

\* C2 as stated: do_shift is a no-op (nothing renamed or deleted) exactly when
\* index 0 is absent from the interval's index set.
C2_NoOpIffZeroAbsent ==
    ShiftCompleted => ((ops = <<>> /\ fs = fs0) <=> 0 \notin IndexSet(fs0, shift_iv))

\* C2 amended: do_shift (not in dry-run) is a no-op exactly when the interval has
\* no generation directory at all; it rotates whenever some index is present,
\* also when index 0 is absent.
C2_NoOpIffEmpty ==
    ShiftCompleted =>
        /\ (ops = <<>>) <=> (IndexSet(fs0, shift_iv) = {})
        /\ (fs = fs0) <=> (IndexSet(fs0, shift_iv) = {})

C2_Witness ==
    /\ ShiftCompleted
    /\ IndexSet(fs0, shift_iv) = {1, 2}
    /\ IndexSet(fs, shift_iv) = {2, 3}
    /\ Len(ops) = 2

\* C3: during do_shift no rename targets a name that exists on disk at that
\* moment, for every set of directories named <interval>.<integer>.
C3_NoRenameOntoExisting ==
    \A i \in 1..Len(ops) : ops[i].op \in {"rename", "rename_failed"} => ~ops[i].clash

NonNegative(s) == IntOk(s) /\ int(s) >= 0

\* C37 as stated: interval_indicies returns exactly the entries named
\* <interval>.<N> with N a non-negative integer, each with its index; an entry
\* whose suffix is not a non-negative integer is ignored and never rotated or
\* pruned.
C37_OnlyNonNegativeIndices ==
    /\ \A k \in 1..Len(indicies) :
          indicies[k][1] >= 0 /\ NonNegative(indicies[k][2][2])
    /\ \A i \in 1..Len(ops) : NonNegative(ops[i].src[2])
    /\ \A d \in DOMAIN fs0 : ~NonNegative(d[2]) => (d \in DOMAIN fs /\ fs[d] = fs0[d])

(***************************************************************************)
(* Claims about the device stack (checked under SpecDev).                  *)
(***************************************************************************)
RECURSIVE Reverse(_)
Reverse(q) == IF q = <<>> THEN <<>> ELSE Append(Reverse(Tail(q)), Head(q))

Kinds(q) == [i \in 1..Len(q) |-> q[i].kind]

\* the positions of the history at which an event of kind ev was recorded
Events(ev) == {i \in 1..Len(hist) : hist[i].ev = ev}

\* the positions of the history of commands at which cmd was issued
At(cmd) == {i \in 1..Len(cmds) : cmds[i].cmd = cmd}

ReleaseCmds == {"umount", "luksClose", "hdparm"}

FailedReleases == {i \in 1..Len(cmds) : cmds[i].cmd \in ReleaseCmds /\ ~cmds[i].ok}

ReleaseError(cmd) ==
    CASE cmd = "umount" -> "CalledProcessError:umount"
      [] cmd = "luksClose" -> "CalledProcessError:luksClose"
      [] cmd = "hdparm" -> "CalledProcessError:hdparm"

\* DeviceContext.__enter__ raised
EnterFailed == pc = "done" /\ parts # <<>>

\* the with statement was left through ExitStack.__exit__
StackExited == pc = "done" /\ parts = <<>> /\ entered # <<>>

\* C5: if entering the k-th context fails, every context already entered is
\* released, in the reverse of the acquisition order, before the failure propagates.
C5_EnterFailureRollsBack ==
    EnterFailed => released = Reverse(entered)

\* C6: on exit of the device stack all acquired contexts are released in the
\* reverse of their acquisition order; a release that fails does not prevent the
\* release of the contexts acquired before it.
C6_ReleaseInReverse ==
    /\ pc = "exit" => released \o Reverse(Kinds(stack)) = Reverse(entered)
    /\ StackExited => released = Reverse(entered)

C6_Witness ==
    /\ StackExited
    /\ entered = <<"wait", "suspend", "crypto", "mount", "chdir">>
    /\ released = <<"chdir", "mount", "crypto", "suspend", "wait">>
    /\ \E i \in At("umount") : ~cmds[i].ok
    /\ At("luksClose") # {}

\* C7 as stated: a failure while releasing a resource is swallowed: it never
\* propagates out of the run and never replaces the error of the run body.
C7_ReleaseFailureSwallowed ==
    StackExited => result = (IF body_exc = NoExc THEN "ok" ELSE body_exc)

\* C7 amended: a failure while releasing a resource is not swallowed: after the
\* remaining releases it propagates out of the run, in place of the error of the
\* run body; without a failing release the run ends with the body's outcome.
C7_ReleaseFailurePropagates ==
    StackExited =>
        /\ released = Reverse(entered)
        /\ result = (IF FailedReleases = {}
                     THEN (IF body_exc = NoExc THEN "ok" ELSE body_exc)
                     ELSE ReleaseError(cmds[CHOOSE i \in FailedReleases :
                                              \A j \in FailedReleases : j <= i].cmd))

C7_Witness ==
    /\ StackExited
    /\ body_exc = "OSError:body"
    /\ result = "CalledProcessError:umount"
    /\ released = Reverse(entered)
    /\ At("luksClose") # {}

\* C9: acquisition is sequential in the order wait, suspend, open mapping, mount,
\* chdir: mount is never attempted before the mapping was opened, chdir never
\* before the mount succeeded; release is in the reverse order (directory
\* restored before unmount, unmount before closing the mapping, closing before
\* spin-down).
C9_AcquireReleaseOrder ==
    /\ \A i \in 1..Len(entered) : \A j \in 1..Len(entered) :
          (/\ i < j) =>
              /\ entered[j] = "chdir" => entered[i] \in {"wait", "suspend", "crypto", "mount"}
              /\ entered[j] = "mount" => entered[i] \in {"wait", "suspend", "crypto"}
              /\ entered[j] = "crypto" => entered[i] \in {"wait", "suspend"}
              /\ entered[j] = "suspend" => entered[i] = "wait"
    /\ (At("mount") # {} /\ conf.dest_cryptsetup) =>
          \E i \in 1..Len(entered) : entered[i] = "crypto"
    /\ (At("chdir") # {} /\ conf.dest_mount) =>
          \E i \in 1..Len(entered) : entered[i] = "mount"
    /\ (At("mount") # {} /\ conf.dest_cryptsetup /\ ~conf.dryrun /\ At("luksClose") = {}) =>
          dev.mapped
    /\ (At("chdir") # {} /\ conf.dest_mount /\ ~conf.dryrun /\ At("umount") = {}) =>
          dev.mounted
    /\ \A i \in At("umount") : \E j \in At("chdir_back") : j < i
    /\ \A i \in At("luksClose") :
          /\ \E j \in At("chdir_back") : j < i
          /\ \A j \in At("umount") : j < i
          /\ \A j \in At("mount") : j < i
    /\ \A i \in At("hdparm") :
          /\ \E j \in At("chdir_back") : j < i
          /\ \A j \in At("umount") \cup At("luksClose") : j < i
    /\ \A i \in 1..Len(released) : \A j \in 1..Len(released) :
          (i < j /\ released[i] = "crypto") => released[j] \in {"suspend", "wait"}

C9_Witness ==
    /\ StackExited
    /\ [i \in 1..Len(cmds) |-> cmds[i].cmd] =
          <<"luksOpen", "mount", "chdir", "chdir_back", "umount", "luksClose", "hdparm">>
    /\ \A i \in 1..Len(cmds) : cmds[i].ok /\ cmds[i].real

\* C10: the spin-down command is issued on teardown only if the run exited
\* without error: it is skipped if the run body, or a release performed before
\* the SuspendContext's release, raised.  Entering the SuspendContext does nothing.
C10_SpinDownOnlyOnSuccess ==
    /\ \A i \in At("hdparm") :
          /\ body_exc = NoExc
          /\ \A j \in FailedReleases : i <= j
          /\ pc \in {"exit", "done"}
          /\ \E k \in 1..Len(released) : released[k] = "suspend"
    /\ (\E k \in 1..Len(released) : released[k] = "suspend") =>
          (At("hdparm") # {} <=>
              (body_exc = NoExc /\ \A j \in FailedReleases : cmds[j].cmd = "hdparm"))

C10_Witness ==
    /\ StackExited
    /\ At("hdparm") # {}
    /\ result = "ok"
    /\ At("umount") # {}

C10_WitnessSkipped ==
    /\ StackExited
    /\ \E k \in 1..Len(released) : released[k] = "suspend"
    /\ body_exc = NoExc
    /\ At("hdparm") = {}

\* the mount command (luksOpen) was run by this command's MountContext (CryptoContext)
Performed(cmd) == \E i \in At(cmd) : cmds[i].ok

\* C11: on teardown a MountContext unmounts (a CryptoContext closes its mapping)
\* exactly when it performed the mount (open) itself at entry and
\* umount_if_mounted is set, or force_umount is set; a filesystem found mounted
\* (a mapping found open) at entry is not mounted (opened) again at entry, and is
\* released at teardown only if force_umount is set.
C11_ReleasePolicy ==
    /\ []((\E k \in 1..Len(released) : released[k] = "mount") =>
            (At("umount") # {} <=>
                ((Performed("mount") /\ args.umount) \/ args.force_umount)))
    /\ []((\E k \in 1..Len(released) : released[k] = "crypto") =>
            (At("luksClose") # {} <=>
                ((Performed("luksOpen") /\ args.umount) \/ args.force_umount)))
    /\ [][(pc = "enter" /\ parts # <<>> /\ Head(parts) = "mount" /\ dev.mounted)
             => cmds' = cmds]_vars
    /\ [][(pc = "enter" /\ parts # <<>> /\ Head(parts) = "crypto" /\ dev.mapped)
             => cmds' = cmds]_vars

C11_Witness ==
    /\ StackExited
    /\ ~args.umount /\ args.force_umount
    /\ At("mount") = {} /\ At("luksOpen") # {}
    /\ At("umount") # {} /\ At("luksClose") # {}

\* C12: --force-umount implies --umount: with force_umount set the contexts torn
\* down at the end of the run (unmount, closing the mapping and, when configured,
\* the spin-down) are those of a run with umount set, whether or not --no-umount
\* was given.
C12_ForceImpliesUmount ==
    (StackExited /\ args.force_umount) =>
        released = Reverse(create_target_device_context(conf, TRUE, TRUE))

\* C36 as stated: the waiting callback is called once with elapsed = 0 and once
\* after each step at which the device is still absent, each time with the time
\* that has passed since waiting began and remaining = timeout - elapsed; the
\* reported elapsed time never exceeds the timeout and the reported remaining
\* time is never negative; no call when the device is present at entry.
C36_WaitingReportsElapsed ==
    \A i \in Events("waiting") :
        LET w == hist[i].what
        IN  /\ w.since = w.elapsed
            /\ w.remaining = WAIT_TIMEOUT - w.elapsed
            /\ w.since <= WAIT_TIMEOUT
            /\ w.remaining >= 0

\* C40 as stated: the spin-down command is never issued to the destination
\* device while its filesystem is still mounted or its mapping still open, for
\* every combination of umount_if_mounted, force_umount and initial mount state.
C40_SpinDownAfterUnmount ==
    \A i \in At("hdparm") :
        cmds[i].real => (~dev.mounted /\ (conf.dest_cryptsetup => ~dev.mapped))

(***************************************************************************)
(* Claims about a whole run (checked under Spec).                          *)
(***************************************************************************)
\* the intervals the run was asked for: each of them is handed to do_shift
Requested == {hist[i].what : i \in {j \in 1..Len(hist) : hist[j].ev = "shift"}}

RunCompleted == pc = "done" /\ result = "ok"

WithinDepth(interval) ==
    LET N == conf.intervals_shiftdepth[interval]
    IN  N > 0 =>
           /\ Cardinality({p[2] : p \in interval_indicies(fs, interval)}) <= N
           /\ IndexSet(fs, interval) \subseteq 0..(N - 1)

\* C4 as stated: after a completed backup run that requested an interval with
\* retention depth N > 0, the interval has at most N generation directories and
\* all their indices lie in 0..N-1, whatever existed before the run.
C4_RetentionBound ==
    RunCompleted => \A interval \in Requested : WithinDepth(interval)

\* C4 amended: after a completed backup run that is not a dry run and that
\* requested an interval with retention depth N > 0, the interval has at most N
\* generation directories and all their indices lie in 0..N-1, whatever existed
\* before the run.
C4_RetentionBoundReal ==
    (RunCompleted /\ ~conf.dryrun) => \A interval \in Requested : WithinDepth(interval)

C4_Witness ==
    /\ RunCompleted
    /\ ~conf.dryrun
    /\ Requested = {"daily", "weekly"}
    /\ conf.intervals_shiftdepth["daily"] = 2
    /\ <<"daily", <<"2">>>> \in Deleted
    /\ IndexSet(fs, "daily") = {0, 1}
    /\ IndexSet(fs, "weekly") = {0, 1}

\* the run body raised and the error has left CmdBackup.run
BodyErrorSurfaced == body_exc # NoExc /\ result # "running"

FailedDeletes == {i \in At("btrfs_delete") : ~cmds[i].ok}

\* C8: if rotation, snapshot handling, a target sync or replication raises after
\* the device stack was acquired, then before the error surfaces to the caller
\* the deletion of every snapshot taken was attempted (a snapshot is left only
\* where the deletion command itself failed) and every acquired context was
\* released, in the reverse of the acquisition order.
C8_TeardownBeforeError ==
    BodyErrorSurfaced =>
        /\ pc = "done" /\ result # "ok"
        /\ stack = <<>>
        /\ released = Reverse(entered)
        /\ \A v \in Range(subvolumes) :
              \E i \in 1..Len(hist) : hist[i] = Event("snapshot_delete", v)
        /\ Cardinality(snaps) <= Cardinality(FailedDeletes)

C8_Witness ==
    /\ BodyErrorSurfaced
    /\ body_exc = "OSError:rmtree"
    /\ result = "OSError:rmtree"
    /\ subvolumes = <<"/", "/home">>
    /\ snaps = {}
    /\ entered = <<"wait", "mount", "chdir">>
    /\ released = <<"chdir", "mount", "wait">>

\* do_backup was entered and has been left, by return or by exception
PassEnded ==
    /\ dests # <<>>
    /\ pc \notin {"backup", "btrfs_init", "targets", "txn", "btrfs_fin"}

\* C13 as stated: if taking a snapshot fails in initialize_btrfs, the failure
\* propagates to the caller, so that no target is synced in that run (the run
\* does not end successfully).
C13_SnapshotFailurePropagates ==
    Events("snapshot_failed") # {} =>
        /\ Events("sync") = {}
        /\ pc # "txn"
        /\ result # "ok"

\* C14: every snapshot recorded in the mapping has had a deletion attempt when
\* the backup pass ends, whether the pass completed or raised; a deletion that
\* fails raises nothing (the exception in flight stays the one that entered the
\* finally clause) and does not stop the attempts for the remaining snapshots; a
\* snapshot is left only where its deletion command failed.
C14_SnapshotsReleased ==
    /\ (PassEnded \/ (pc = "btrfs_fin" /\ sv_todo = <<>>)) =>
          /\ \A v \in Range(subvolumes) :
                \E i \in Events("snapshot_delete") : hist[i].what = v
          /\ Cardinality(snaps) <= Cardinality(FailedDeletes)
    /\ pc = "btrfs_fin" => exc = body_exc

C14_Witness ==
    /\ PassEnded
    /\ body_exc = "OSError:rmtree"
    /\ subvolumes = <<"/", "/home">>
    /\ snaps = {"/"}
    /\ \E i \in FailedDeletes : \E j \in At("btrfs_delete") : i < j /\ cmds[j].ok

\* the transactions whose execute() raised
FailedSyncs == {i \in Events("sync") : hist[i].what.outcome \notin {"ok", "partial"}}

Restored(linkdest) == IF linkdest = <<>> THEN "absent" ELSE "linkcopy"

\* C17 as stated: a transaction whose execute() raised ends with the destination
\* absent (no link-base) or replaced by a fresh hard-link copy of the link-base,
\* never partially synced; a transaction that succeeds is never rolled back.
C17_RolledBackOrRestored ==
    /\ \A i \in FailedSyncs :
          dests[hist[i].what.target] = Restored(hist[i].what.linkdest)
    /\ \A i \in Events("sync") \ FailedSyncs :
          dests[hist[i].what.target] \notin {"absent", "linkcopy", "partial_copy"}

\* C17 amended: a transaction whose execute() raised deletes the destination and,
\* if a link-base was designated, re-creates it as a hard-link copy of the
\* link-base.  If both steps succeed the destination is absent (no link-base) or
\* the fresh copy; if the deletion fails the destination stays as the failed sync
\* left it; if the copy fails, or no cp command is configured, the destination is
\* absent or an incomplete copy.  In both failure cases the error of the rollback
\* replaces the error of execute().  A transaction that succeeds is never rolled
\* back.
C17_RollbackAttempted ==
    /\ \A i \in FailedSyncs :
          LET t == hist[i].what
          IN  /\ t.outcome \in {"rolled_back", "rollback_failed"}
              /\ t.outcome = "rolled_back" =>
                    /\ dests[t.target] = Restored(t.linkdest)
                    /\ t.raised \in {"CalledProcessError:rsync", "CalledProcessError:cp"}
              /\ t.outcome = "rollback_failed" =>
                    \/ /\ t.raised = DeltreeError
                       /\ dests[t.target] = "partial"
                    \/ /\ t.raised \in {"CalledProcessError:cp", "NotImplementedError:cp"}
                       /\ t.linkdest # <<>>
                       /\ dests[t.target] \in {"absent", "partial_copy"}
    /\ \A i \in Events("sync") \ FailedSyncs :
          dests[hist[i].what.target] \notin {"absent", "linkcopy", "partial_copy"}

C17_Witness ==
    /\ \E i \in FailedSyncs : \E j \in FailedSyncs :
          /\ hist[i].what.outcome = "rolled_back"
          /\ hist[i].what.linkdest # <<>>
          /\ dests[hist[i].what.target] = "linkcopy"
          /\ hist[j].what.outcome = "rollback_failed"
          /\ dests[hist[j].what.target] = "partial"
    /\ pc = "done"

\* C18: an rsync exit code of 23 or 24 is a warning only: the transaction counts
\* as successful, nothing is rolled back and the run goes on with the next
\* target; exit code 0 is success; every other exit code raises a sync failure,
\* which triggers the rollback of the transaction.
C18_PartialTransferIsWarning ==
    /\ \A i \in Events("sync") :
          LET t == hist[i].what
          IN  /\ t.rc \in {0, 23, 24} =>
                    /\ t.outcome = (IF t.rc = 0 THEN "ok" ELSE "partial")
                    /\ t.raised = NoExc
                    /\ ~conf.dryrun => dests[t.target] = RsyncLeaves(t.rc)
              /\ (t.rc >= 0 /\ t.rc \notin {0, 23, 24}) =>
                    /\ t.outcome \in {"rolled_back", "rollback_failed"}
                    /\ t.raised # NoExc
                    /\ dests[t.target] # "partial" \/ t.raised = DeltreeError
    /\ (/\ PassEnded
        /\ \A i \in Events("sync") : hist[i].what.rc \in {0, 23, 24}) =>
          \/ Cardinality(Events("sync")) = Len(conf.targets)
          \/ body_exc \in {"OSError:makedirs", "OSError:makedirs_snapshotdir"}

C18_Witness ==
    /\ pc = "done" /\ result = "ok"
    /\ \E i \in Events("sync") : \E j \in Events("sync") :
          /\ i < j
          /\ hist[i].what.rc = 23 /\ hist[j].what.rc = 24
          /\ dests[hist[i].what.target] = "partial_transfer"
    /\ At("rm") = {}

\* C19 as stated: a failing transaction for one target (sync failure followed by
\* its rollback) does not prevent the transactions of the later targets from
\* being attempted in the same run.
C19_FailuresIsolated ==
    PassEnded =>
        \A i \in FailedSyncs :
            \/ \A k \in 1..Len(conf.targets) :
                   \E j \in Events("sync") : hist[j].what.target = conf.targets[k]
            \/ body_exc = "OSError:makedirs"

\* C20 as stated: the link-base of the new generation 0 is the newest generation
\* of the interval that remains after rotation (the lowest index present apart
\* from the new generation 0), there is none when rotation left no generation,
\* and the link-base is never the destination directory itself.
C20_LinkBase ==
    pc = "txn" =>
        LET rest == IndexSet(fs, backup_interval) \ {0}
        IN  /\ txn.linkdest = IF rest = {} THEN <<>>
                              ELSE interval_dirname(backup_interval, Min(rest))
            /\ txn.linkdest # txn.dest

\* C20 amended: in a run that is not a dry run the link-base of the new
\* generation 0 is the newest generation of the interval that remains after
\* rotation, there is none when rotation left no generation, and the link-base is
\* never the destination directory itself.  (A dry run rotates nothing, so it
\* names the existing generation 0, the destination itself, as link-base.)
C20_LinkBaseReal ==
    (pc = "txn" /\ ~conf.dryrun) =>
        LET rest == IndexSet(fs, backup_interval) \ {0}
        IN  /\ txn.linkdest = IF rest = {} THEN <<>>
                              ELSE interval_dirname(backup_interval, Min(rest))
            /\ txn.linkdest # txn.dest

C20_Witness ==
    /\ pc = "txn" /\ ~conf.dryrun
    /\ backup_interval = "daily"
    /\ conf.intervals_shiftdepth["daily"] = 0
    /\ IndexSet(fs, "daily") = {0, 1, 3}
    /\ txn.linkdest = <<"daily", <<"1">>>>
    /\ txn.dest = <<"daily", <<"0">>>>

\* C25 as stated: the clone processes started in one run write to pairwise
\* distinct destination directories and none of them is the clone source
\* <primary>.0, for every request and both values of intervals_run_only_lowest.
C25_CloneDestsDistinct ==
    /\ \A i \in Events("clone_start") : \A j \in Events("clone_start") :
          i # j => hist[i].what # hist[j].what
    /\ \A i \in Events("clone_start") :
          hist[i].what # interval_dirname(backup_interval, 0)

ShiftsOf(interval) == {i \in Events("shift") : hist[i].what = interval}

Last(q) == q[Len(q)]

\* C26: the rotation of an interval is over before its generation 0 is written:
\* a sync happens only after do_shift of the backup interval has returned (in a
\* real run <interval>.0 is then a directory made by this run), a clone to
\* <sibling>.0 is started only after do_shift of the sibling has returned, and no
\* clone is started before the transactions of all targets have finished.
C26_RotationBeforeWrite ==
    /\ [](\A i \in Events("sync") : \E j \in ShiftsOf(backup_interval) : j < i)
    /\ [](\A i \in Events("clone_start") :
            /\ \E j \in Events("shift") :
                  j < i /\ interval_dirname(hist[j].what, 0) = hist[i].what
            /\ \A j \in Events("sync") : j < i
            /\ dests # <<>> =>
                  \A k \in 1..Len(conf.targets) :
                     \E j \in Events("sync") : hist[j].what.target = conf.targets[k])
    /\ []((pc = "txn" /\ ~conf.dryrun) =>
            fs[interval_dirname(backup_interval, 0)] = "new")
    /\ [][(hist' # hist /\ Last(hist').ev \in {"sync", "clone_start"}) =>
            (pc \notin {"shift", "shift_loop"} /\ indicies = <<>> /\ txn' = <<>>)]_vars

C26_Witness ==
    /\ RunCompleted /\ ~conf.dryrun
    /\ Cardinality(Events("sync")) = 2
    /\ Events("clone_start") # {}
    /\ <<"weekly", <<"0">>>> \in DOMAIN fs0
    /\ fs[<<"weekly", <<"0">>>>] = "clone"

C28_RotatedOnce ==
    \A iv \in Range(conf.intervals) : Cardinality(ShiftsOf(iv)) <= 1

AllowsBackup ==
    ~conf.intervals_run_only_lowest \/ backup_interval = conf.intervals[1]

RunEvents == {"shift", "nothing_to_do", "clone_start", "clone_returned", "clone_finished"}

\* C29: do_backup is called in a run exactly when intervals_run_only_lowest is
\* false or the lowest requested interval is the lowest configured one; otherwise
\* no target is synced and no snapshot is taken, and the run only shifts and
\* clones.
C29_BackupIffAllowed ==
    /\ dests # <<>> => AllowsBackup
    /\ (pc \in {"others", "clone", "clone_start", "clone_poll"} \/ RunCompleted) =>
          (dests # <<>> <=> AllowsBackup)
    /\ dests = <<>> =>
          /\ \A i \in 1..Len(hist) : hist[i].ev \in RunEvents
          /\ At("rsync") = {} /\ At("btrfs_snapshot") = {} /\ At("cp_al") = {}
          /\ snaps = {} /\ txn = <<>>
          /\ \A d \in DOMAIN fs : fs[d] # "new"
    /\ Events("nothing_to_do") # {} => dests = <<>>

C29_Witness ==
    /\ RunCompleted /\ ~conf.dryrun
    /\ conf.intervals_run_only_lowest
    /\ backup_interval = "weekly"
    /\ Events("nothing_to_do") # {}
    /\ Events("clone_finished") # {}
    /\ Cardinality(ShiftsOf("weekly")) = 2

\* C30: the backup is made in the requested interval that comes first in the
\* configured interval list, whatever the order of the command line; targets are
\* synced into generation 0 of that interval only, and in a real run the
\* generation 0 of every other requested interval is, once that interval has been
\* rotated, either absent or the outcome of a clone process.
C30_BackupInLowestRequested ==
    /\ backup_interval # "" =>
          \A i \in 1..Len(args.intervals) :
             index(conf.intervals, backup_interval) <= index(conf.intervals, args.intervals[i])
    /\ pc = "txn" => txn.dest = interval_dirname(backup_interval, 0)
    /\ \A d \in DOMAIN fs : fs[d] = "new" => d = interval_dirname(backup_interval, 0)
    /\ \A iv \in Range(conf.intervals) :
          (/\ ~conf.dryrun /\ body_exc = NoExc
           /\ iv # backup_interval
           /\ ShiftsOf(iv) # {}
           /\ ~(pc \in {"shift", "shift_loop"} /\ shift_iv = iv)
           /\ interval_dirname(iv, 0) \in DOMAIN fs) =>
              fs[interval_dirname(iv, 0)] \in {"clone", "partial"}

C30_Witness ==
    /\ RunCompleted /\ ~conf.dryrun
    /\ backup_interval = "daily"
    /\ ShiftsOf("weekly") # {}
    /\ fs[<<"daily", <<"0">>>>] = "new"
    /\ fs[<<"weekly", <<"0">>>>] = "clone"
    /\ \A i \in Events("sync") : hist[i].what.outcome = "ok"
    /\ Cardinality(Events("sync")) = 2

\* C31 as stated: the value with which a run ends distinguishes a failure of the
\* configuration or of the acquisition, a run in which a sync failed and full
\* success: a finished run with a failed sync does not end like a run in which
\* every target succeeded.
C31_ExitCodeDistinguishes ==
    (pc = "done" /\ FailedSyncs # {}) => result \notin {"ok", "3"}

\* the commands that are external programs (os.chdir is a call of the process)
ExternalAt == {i \in 1..Len(cmds) : cmds[i].cmd \notin {"chdir", "chdir_back"}}

\* C32 as stated: in dry-run mode nothing is done: no external command is
\* executed, and no directory is created, renamed or deleted.
C32_DryRunDoesNothing ==
    conf.dryrun =>
        /\ \A i \in ExternalAt : ~cmds[i].real
        /\ \A d \in DOMAIN fs : fs[d] = "gen"
        /\ pc \in {"shift", "shift_loop"} => fs = fs0

\* C38 as stated: whenever clone_intervals has started a process, the source
\* directory <primary>.0 exists and was produced by the sync pass of this run.
C38_CloneSourceComplete ==
    Events("clone_start") # {} =>
        /\ interval_dirname(backup_interval, 0) \in DOMAIN fs
        /\ fs[interval_dirname(backup_interval, 0)] = "new"
        /\ dests # <<>>

\* the state of the device before the run
DevUntouched == [present |-> TRUE, mapped |-> FALSE, mounted |-> FALSE, cwd |-> "start"]

UnknownRequested ==
    \E i \in 1..Len(args.intervals) : args.intervals[i] \notin Range(conf.intervals)

\* C39: a request that names an interval that is not configured ends with the
\* return value 3 before any resource context is entered, any interval rotated
\* or anything written: no command was issued, nothing was recorded, and the
\* filesystem and the device are as they were; no other run returns 3.
C39_UnknownIntervalRejected ==
    /\ (UnknownRequested /\ pc # "start") =>
          /\ pc = "done" /\ result = "3"
          /\ cmds = <<>> /\ entered = <<>> /\ released = <<>> /\ stack = <<>>
          /\ hist = <<>> /\ ops = <<>> /\ dests = <<>> /\ snaps = {}
          /\ dev = DevUntouched
          /\ \A d \in DOMAIN fs : fs[d] = "gen"
    /\ result = "3" => UnknownRequested

C39_Witness ==
    /\ pc = "done" /\ result = "3"
    /\ args.intervals = <<"daily", "hourly">>
    /\ fs # <<>>

(***************************************************************************)
(* Claims about the source path of a target (checked under SpecSubst).     *)
(***************************************************************************)
\* the components of a path: the non-empty pieces between slashes
RECURSIVE Components(_)
Components(q) ==
    IF q = <<>> THEN <<>>
    ELSE IF Head(q) = "/" THEN Components(Tail(q))
    ELSE LET n == CHOOSE k \in 1..Len(q) :
                     /\ \A j \in 1..k : q[j] # "/"
                     /\ (k = Len(q) \/ q[k + 1] = "/")
         IN  <<SubSeq(q, 1, n)>> \o Components(SubSeq(q, n + 1, Len(q)))

\* path is sv_root or a descendant of it
IsUnder(path, sv_root) ==
    LET r == Components(sv_root)
        c == Components(path)
    IN  Len(r) <= Len(c) /\ SubSeq(c, 1, Len(r)) = r

RootsAbove(path) == {r \in Range(subvolumes) : IsUnder(path, r)}

SourceDone == pc = "done" /\ txn # <<>> /\ txn.source # <<>>

GivenSource == txn.target.source_prefix \o txn.target.source

\* C15 as stated: substitute_btrfs_snapshot replaces the longest snapshotted
\* root that is a prefix of the path by that root's snapshot path and keeps the
\* remainder of the path unchanged; the result does not depend on the iteration
\* order of the mapping.
C15_LongestRootReplaced ==
    (SourceDone /\ txn.target.local /\ RootsAbove(GivenSource) # {}) =>
        LET above == RootsAbove(GivenSource)
            best == CHOOSE r \in above :
                       \A o \in above : Len(Components(o)) <= Len(Components(r))
            c == Components(GivenSource)
        IN  /\ Components(txn.source) =
                   Components(SnapshotPath(best))
                      \o SubSeq(c, Len(Components(best)) + 1, Len(c))
            /\ txn.source = substitute_btrfs_snapshot(Reverse(subvolumes), GivenSource)

\* C16 as stated: the source path of a target is rewritten exactly when the
\* target is local and the path is a snapshotted root or a descendant of one;
\* sources of remote targets and paths under no root (also those that only share
\* a leading string with a root) are passed on unmodified.
C16_RewrittenIffUnderRoot ==
    SourceDone =>
        (txn.source # GivenSource <=>
            (txn.target.local /\ RootsAbove(GivenSource) # {}))

(***************************************************************************)
(* Claims about clone_intervals (checked under SpecClone, C24 under        *)
(* SpecCloneLive).                                                         *)
(***************************************************************************)
CloneReturned == pc = "exit" /\ body_exc = NoExc

\* the destinations of the clone processes started so far, in order
CloneStarts ==
    LET q == SelectSeq(hist, LAMBDA e : e.ev = "clone_start")
    IN  [i \in 1..Len(q) |-> q[i].what]

Outstanding == {processes[i].dirname : i \in 1..Len(processes)}

ReturnedAt(d) == {i \in Events("clone_returned") : hist[i].what[1] = d}

FinishedAt(d) == {i \in Events("clone_finished") : hist[i].what = d}

\* C21: clone_intervals starts one hard-link copy per destination interval, from
\* <source>.0 to <destination>.0 in the order given; every process started is
\* either still in the list or was taken off it after its wait() returned, and
\* clone_intervals returns only with the list empty, in whatever order the
\* processes exited.
C21_AllClonesJoined ==
    /\ pc \in {"clone_poll", "exit"} =>
          \A k \in 1..Len(CloneStarts) :
             LET d == CloneStarts[k]
             IN  \/ d \in Outstanding
                 \/ \E j \in FinishedAt(d) : \E i \in ReturnedAt(d) : i < j
    /\ CloneReturned =>
          /\ processes = <<>>
          /\ CloneStarts = [k \in 1..Len(args.intervals) |->
                               interval_dirname(args.intervals[k], 0)]
          /\ \A i \in Events("clone_returned") :
                (hist[i].what[2] = 0 /\ ~conf.dryrun) =>
                    /\ interval_dirname(backup_interval, 0) \in DOMAIN fs
                    /\ hist[i].what[1] \in DOMAIN fs

\* three clones, finished in an order that is not the order they were started in
C21_Witness ==
    /\ CloneReturned /\ ~conf.dryrun
    /\ Len(CloneStarts) = 3
    /\ \E i \in FinishedAt(CloneStarts[3]) : \E j \in FinishedAt(CloneStarts[1]) :
           \E k \in FinishedAt(CloneStarts[2]) : i < j /\ j < k
    /\ \E i \in Events("clone_returned") : hist[i].what[2] # 0

\* C22 as stated: the completion of a clone process is reported exactly once (one
\* warning for a non-zero exit) and the process leaves the list in the round that
\* observed it; it is never waited for or reported again.
C22_ReportedOnce ==
    \A d \in Range(CloneStarts) : Cardinality(ReturnedAt(d)) <= 1

\* C23 as stated: when the run is interrupted while clone processes are
\* outstanding, every outstanding process is signalled to terminate; none is
\* left running.
C23_InterruptTerminatesClones ==
    body_exc = "KeyboardInterrupt" =>
        \A i \in 1..Len(processes) :
            processes[i].state = "running" =>
                \E j \in Events("clone_terminate") : hist[j].what = processes[i].dirname

AllExited == \A i \in 1..Len(processes) : processes[i].state = "exited"

\* C24: once every process of the list has exited, clone_intervals returns; and
\* a process that has exited is taken off the list whether or not the others
\* ever exit (a process still running is waited for again in the next round).
C24_ClonesEventuallyJoined ==
    /\ (pc = "clone_poll" /\ AllExited) ~> CloneReturned
    /\ \A d \in {interval_dirname(iv, 0) : iv \in {"weekly", "monthly", "yearly", "daily"}} :
          (pc = "clone_poll"
             /\ \E i \in 1..Len(processes) :
                    processes[i].dirname = d /\ processes[i].state = "exited")
          ~> (d \notin Outstanding)

\* the second of three clones is off the list while the other two still run
C24_Witness ==
    /\ pc = "clone_poll"
    /\ Len(CloneStarts) = 3
    /\ Len(processes) = 2
    /\ CloneStarts[2] \notin Outstanding
    /\ \A i \in 1..Len(processes) : processes[i].state = "running"

(***************************************************************************)
(* Claims about weeklymonthly (checked under SpecWm).                      *)
(***************************************************************************)
\* the runs that had a last run to compare with
Compared == {i \in Events("wm_exec") : hist[i].what.last_run # NoRun}

NotAfter(a, b) ==
    \/ toordinal(a) < toordinal(b)
    \/ toordinal(a) = toordinal(b) /\ SecondOfDay(a) <= SecondOfDay(b)

\* the day on which the calendar week of dt began (a Monday)
WeekStart(dt) == toordinal(dt) - dayofweek(dt)

\* C33 as stated: for last <= current with any time of day, is_weekly is true
\* exactly when a new calendar week has begun since last: the weekly argument is
\* appended exactly in the runs whose week is not the week of the last run.
C33_WeeklyIffNewWeek ==
    \A i \in Compared :
        LET e == hist[i].what
        IN  NotAfter(e.last_run, e.this_run) =>
               ((args.weekly \in Range(e.commandline))
                   <=> (WeekStart(e.last_run) # WeekStart(e.this_run)))

\* C34: is_monthly is true exactly when the two times differ in year or month,
\* whatever the days, the times of day and the order of the two: the monthly
\* argument is appended exactly in the runs whose (year, month) is not that of
\* the last run.
C34_MonthlyIffMonthDiffers ==
    \A i \in Compared :
        LET e == hist[i].what
        IN  (args.monthly \in Range(e.commandline))
               <=> (e.last_run.year # e.this_run.year \/ e.last_run.month # e.this_run.month)

C34_Witness ==
    \E i \in Compared :
        LET e == hist[i].what
        IN  /\ e.last_run.month = e.this_run.month
            /\ e.last_run.year > e.this_run.year
            /\ e.last_run.day # e.this_run.day
            /\ e.last_run.hour # e.this_run.hour
            /\ args.monthly \in Range(e.commandline)

\* the time the state file holds
Recorded == strptime(strip(state_file.content))

\* C35: without a state file the command is run with neither argument and the
\* file is created with the time of the run; the state file holds the time of
\* the most recent run that was accepted and is written before the command is
\* executed; a run in the second of the recorded last run exits with 1 without
\* writing the state file or running the command.
C35_StateFileProtocol ==
    /\ \A i \in Events("wm_exec") :
          /\ i > 1 /\ hist[i - 1].ev = "wm_write"
          /\ hist[i - 1].what = strftime(hist[i].what.this_run) \o <<"\n">>
          /\ hist[i].what.last_run = NoRun => hist[i].what.commandline = args.commandline
          /\ hist[i].what.last_run # hist[i].what.this_run
    /\ \A i \in Events("wm_write") :
          \/ i = Len(hist) /\ pc = "wm_exec"
          \/ i < Len(hist) /\ hist[i + 1].ev = "wm_exec"
    /\ \A i \in Events("wm_exit") : i = 1 \/ hist[i - 1].ev \in {"wm_exec", "wm_exit"}
    /\ Events("wm_write") # {} =>
          /\ state_file.exists
          /\ state_file.content = hist[Max(Events("wm_write"))].what
    /\ (pc = "wm_write" /\ ~state_file.exists) => last_run = NoRun
    /\ (pc = "wm_done" /\ result = "execv") =>
          /\ state_file.exists
          /\ Recorded = [clock EXCEPT !.microsecond = 0]
          /\ Recorded = hist[Len(hist)].what.this_run
    /\ (pc = "wm_done" /\ result = "1") =>
          /\ hist[Len(hist)].ev = "wm_exit"
          /\ state_file.exists
          /\ Recorded = [clock EXCEPT !.microsecond = 0]
    /\ (pc = "wm_write" /\ state_file.exists) =>
          Recorded # [clock EXCEPT !.microsecond = 0]

C35_Witness ==
    /\ pc = "wm_done" /\ result = "1"
    /\ Len(hist) = 3
    /\ hist[1].ev = "wm_write" /\ hist[2].ev = "wm_exec" /\ hist[3].ev = "wm_exit"
    /\ hist[2].what.last_run = NoRun
    /\ hist[2].what.commandline = args.commandline
    /\ clock.microsecond = 500000
    /\ state_file.content = hist[1].what

====
